---------------------------- MODULE Spec2Model ----------------------------
(***************************************************************************)
(* CodeRatchet: the match strategies, the ratchet/baseline model and the   *)
(* state comparator, modelled from coderatchet/core/ratchet.py,            *)
(* coderatchet/core/utils.py, coderatchet/core/comparison.py,              *)
(* ratchet_utils.py, test_all_ratchets.py and                              *)
(* coderatchet/examples/advanced/ci_integration.py.                        *)
(*                                                                         *)
(* Text is modelled as sequences of one-token "characters"; a regular      *)
(* expression is modelled by the literal it searches for (re.search of a   *)
(* literal is a substring search), the empty literal matching everywhere   *)
(* (as the regex ".*" does).                                               *)
(***************************************************************************)
EXTENDS Integers, Sequences, FiniteSets, TLC

VARIABLES
    failures,        \* test instance -> its _failures tuple (ratchet.py:72)
    allowed_count,   \* test instance -> its allowed_count field (ratchet.py:64)
    ratchet_values,  \* ratchet_values.json of the working tree: name -> count
    files,           \* working tree: path -> text of the file
    suite,           \* the test instances this run is configured with
    last,            \* the last operation run and what it returned
    head,            \* git: the checked-out reference
    prev_ref,        \* git: the previously checked-out reference, "@{-1}"
    stash,           \* git: the stash stack, newest entry first
    local_changes,   \* git: uncommitted change of the working tree ("none" = clean)
    committed,       \* git: reference -> the ratchet_values.json committed there
    cmp,             \* comparator process -> its control state
    _pattern_cache,  \* PatternManager: (pattern, escape, generation) -> pattern object
    _cache_generation, \* PatternManager: the generation counter
    re_cache,        \* the re module's own cache: (pattern text, flags) -> pattern object
    patterns,        \* the pattern objects compiled so far, by identity
    lookups          \* history: what every get_pattern call returned

vars == <<failures, allowed_count, ratchet_values, files, suite, last,
          head, prev_ref, stash, local_changes, committed, cmp,
          _pattern_cache, _cache_generation, re_cache, patterns, lookups>>

engineVars == <<failures, allowed_count, ratchet_values, files, suite>>
gitVars == <<head, prev_ref, stash, local_changes, committed, cmp>>
managerVars == <<_pattern_cache, _cache_generation, re_cache, patterns, lookups>>

-----------------------------------------------------------------------------
(* Bounds *)

MaxLines == 2      \* lines per file of the working tree
MaxCount == 1      \* largest count written to the baseline store by hand
MaxGeneration == 2 \* largest generation the pattern cache is advanced to

-----------------------------------------------------------------------------
(* Text *)

LF == "LF"
SP == " "

Whitespace == {SP, LF}

\* str.rstrip(): drop the trailing whitespace of a string.
RECURSIVE rstrip(_)
rstrip(s) ==
    IF s = <<>> THEN <<>>
    ELSE IF s[Len(s)] \in Whitespace THEN rstrip(SubSeq(s, 1, Len(s) - 1))
    ELSE s

\* Pattern.search(text, pos) for the literal pattern pat: a substring search
\* that starts at the 0-based offset pos.
search(pat, text, pos) ==
    \E i \in (pos + 1)..(Len(text) - Len(pat) + 1) :
        SubSeq(text, i, i + Len(pat) - 1) = pat

\* "\n".join(lines)
RECURSIVE join(_)
join(lines) ==
    IF lines = <<>> THEN <<>>
    ELSE IF Len(lines) = 1 THEN lines[1]
    ELSE lines[1] \o <<LF>> \o join(Tail(lines))

\* file.readlines(): the lines of a text, each with its line terminator.
RECURSIVE readlines(_)
readlines(text) ==
    IF text = <<>> THEN <<>>
    ELSE LET ends == {i \in 1..Len(text) : text[i] = LF}
             cut == IF ends = {} THEN Len(text)
                    ELSE CHOOSE i \in ends : \A j \in ends : i <= j
         IN <<SubSeq(text, 1, cut)>> \o readlines(SubSeq(text, cut + 1, Len(text)))

\* The ascending sequence of a finite set of numbers.
RECURSIVE ascending(_)
ascending(S) ==
    IF S = {} THEN <<>>
    ELSE LET m == CHOOSE x \in S : \A y \in S : x <= y
         IN <<m>> \o ascending(S \ {m})

\* The text of a file whose lines (without terminators) are ls.
RECURSIVE text_of(_)
text_of(ls) ==
    IF ls = <<>> THEN <<>> ELSE ls[1] \o <<LF>> \o text_of(Tail(ls))

-----------------------------------------------------------------------------
(* Paths and the working tree *)

\* A path is a sequence of path tokens; "test_" in a path and the suffix
\* ".py" are what the file selection of a test looks at.
PathA == <<"a", ".py">>
PathTestB == <<"test_", "b", ".py">>
Paths == {PathA, PathTestB}

\* The lines a file of the working tree can hold (without terminators).
LineA == <<"a">>
LineB == <<"b">>
LineSet == {LineA, LineB}

RECURSIVE seqs_upto(_, _)
seqs_upto(S, n) ==
    IF n = 0 THEN {<<>>}
    ELSE LET shorter == seqs_upto(S, n - 1)
         IN shorter \cup {Append(s, x) : s \in {q \in shorter : Len(q) = n - 1}, x \in S}

FileTexts == {text_of(ls) : ls \in seqs_upto(LineSet, MaxLines)}

\* The file lists an evaluation is given: every list of distinct paths.
FileLists == {fs \in seqs_upto(Paths, Cardinality(Paths)) :
                 \A i, j \in 1..Len(fs) : i # j => fs[i] # fs[j]}

-----------------------------------------------------------------------------
(* The pattern manager (coderatchet/core/utils.py) and re.compile *)

\* re.ASCII
ASCII == 256

\* A pattern text is a sequence of characters; "\\w" stands for the two
\* characters of the word class, "e_acute" for a letter outside ASCII.
WordClass == "\\w"
AsciiWord == {"a"}
UnicodeWord == {"e_acute"}

\* What re.compile makes of a pattern text: one atom per character, a
\* literal or the word class.  re.escape(pattern) makes every character a
\* literal.
atoms(pattern, escape) ==
    [i \in 1..Len(pattern) |->
        IF ~escape /\ pattern[i] = WordClass THEN <<"class", "w">>
        ELSE <<"lit", pattern[i]>>]

\* One atom against one character: under re.ASCII the word class holds
\* ASCII word characters only.
atom_matches(atom, ch, flags) ==
    IF atom[1] = "lit" THEN ch = atom[2]
    ELSE ch \in AsciiWord \cup (IF flags = ASCII THEN {} ELSE UnicodeWord)

\* compiled.search(text) for a pattern object.
pattern_search(compiled, text) ==
    \E offset \in 0..(Len(text) - Len(compiled.atoms)) :
        \A k \in 1..Len(compiled.atoms) :
            atom_matches(compiled.atoms[k], text[offset + k], compiled.flags)

\* optimize_pattern
optimize_pattern(pattern) == pattern

\* The flags get_pattern compiles with in a generation.
generation_flags(generation) == IF generation % 2 = 1 THEN ASCII ELSE 0

\* A function extended or overwritten at one key.
put(f, key, value) ==
    [k \in DOMAIN f \cup {key} |-> IF k = key THEN value ELSE f[k]]

\* re.compile(text, flags): the object the re module has cached for the
\* same text and flags, else a new object, which it caches.  The result is
\* the object, the objects there are afterwards and re's cache afterwards.
re_compile(objects, cache, compiled) ==
    IF <<compiled.atoms, compiled.flags>> \in DOMAIN cache
    THEN [object |-> cache[<<compiled.atoms, compiled.flags>>],
          patterns |-> objects, re_cache |-> cache]
    ELSE [object |-> Len(objects) + 1,
          patterns |-> Append(objects, compiled),
          re_cache |-> put(cache, <<compiled.atoms, compiled.flags>>,
                           Len(objects) + 1)]

-----------------------------------------------------------------------------

(* Test instances *)

NoPattern == [kind |-> "none"]
Literal(lit) == [kind |-> "literal", lit |-> lit]
PyNotTest == [kind |-> "py_not_test"]    \* ^(?!.*test_.*\.py$).*\.py$

CoreTests == {"L", "T2", "FF", "FFI", "FP", "TP", "CMP", "IN", "IX"}
LegacyTests == {"LG", "LGF"}
Tests == CoreTests \cup LegacyTests

\* re.IGNORECASE, the regex_flags of a case-insensitive whole-file test.
IGNORECASE == 2

Def(class, name, pattern, excl) ==
    [class |-> class, name |-> name, pattern |-> pattern,
     last_line_pattern |-> <<>>, regex_flags |-> 0,
     first_pass |-> "none", second_pass_pattern |-> <<>>,
     base_ratchet |-> "none", compare_with_ratchet |-> "none",
     exclude_test_files |-> excl, include_file_regex |-> NoPattern]

\* The test instances of the model, one or two of every class.  IN and IX
\* are built with an explicit include_file_regex (a path holding "b"), IX
\* with exclude_test_files as well.
TestDef ==
    [t \in Tests |->
        CASE t = "L"   -> Def("RegexBasedRatchetTest", "L", <<"a">>, FALSE)
          [] t = "T2"  -> [Def("TwoLineRatchetTest", "T2", <<"a">>, FALSE)
                              EXCEPT !.last_line_pattern = <<"b">>]
          [] t = "FF"  -> Def("FullFileRatchetTest", "FF", <<"b">>, TRUE)
          [] t = "FFI" -> [Def("FullFileRatchetTest", "FFI", <<"b">>, FALSE)
                              EXCEPT !.regex_flags = IGNORECASE]
          [] t = "FP"  -> Def("RegexBasedRatchetTest", "FP", <<"a">>, TRUE)
          [] t = "TP"  -> [Def("TwoPassRatchetTest", "TP", <<>>, FALSE)
                              EXCEPT !.first_pass = "FP",
                                     !.second_pass_pattern = <<"b">>]
          [] t = "CMP" -> [Def("_TempComparisonRatchetTest", "L", <<>>, FALSE)
                              EXCEPT !.base_ratchet = "L",
                                     !.compare_with_ratchet = "FF"]
          [] t = "IN"  -> [Def("RegexBasedRatchetTest", "IN", <<"a">>, FALSE)
                              EXCEPT !.include_file_regex = Literal(<<"b">>)]
          [] t = "IX"  -> [Def("RegexBasedRatchetTest", "IX", <<"a">>, TRUE)
                              EXCEPT !.include_file_regex = Literal(<<"b">>)]
          [] t = "LG"  -> Def("legacy.RegexBasedRatchetTest", "LG", <<"a">>, TRUE)
          [] t = "LGF" -> Def("legacy.FullFileRatchetTest", "LGF", <<"b">>, FALSE)]

TestFailure(test_name, filepath, line_number, line_contents) ==
    [test_name |-> test_name, filepath |-> filepath,
     line_number |-> line_number, line_contents |-> line_contents]

\* RatchetTest.__attrs_post_init__: exclude_test_files replaces the
\* include_file_regex of the instance.  TwoPassRatchetTest defines its own
\* __attrs_post_init__, which does not call the base one.
include_file_regex(t) ==
    IF TestDef[t].exclude_test_files /\ TestDef[t].class # "TwoPassRatchetTest"
    THEN PyNotTest
    ELSE TestDef[t].include_file_regex

\* include_file_regex.search(filepath)
path_search(regex, path) ==
    CASE regex.kind = "literal" -> search(regex.lit, path, 0)
      [] regex.kind = "py_not_test" ->
            /\ path # <<>>
            /\ path[Len(path)] = ".py"
            /\ ~ \E i \in 1..(Len(path) - 1) : path[i] = "test_"
      [] OTHER -> FALSE

should_include_file(t, path) ==
    IF TestDef[t].exclude_test_files /\ search(<<"test_">>, path, 0) THEN FALSE
    ELSE IF include_file_regex(t).kind # "none"
         THEN path_search(include_file_regex(t), path)
    ELSE TRUE

\* A clear_failures on a failure list that all tests share (a variant the
\* code does not have).
clear_failures_shared(fl, t) == [u \in DOMAIN fl |-> <<>>]

clear_failures(fl, t) == [fl EXCEPT ![t] = <<>>]

-----------------------------------------------------------------------------
(* Match strategies: collect_failures_from_lines of every class.  fl is the  *)
(* _failures field of every instance; the result is fl after the call.      *)

RegexBasedRatchetTest_collect_failures_from_lines(fl, t, lines, path) ==
    IF ~should_include_file(t, path) THEN fl
    ELSE LET failures_at(hits) ==
                 [k \in 1..Len(hits) |->
                     TestFailure(TestDef[t].name, path, hits[k], lines[hits[k]])]
         IN [fl EXCEPT ![t] =
                failures_at(ascending({i \in 1..Len(lines) :
                                search(TestDef[t].pattern, lines[i], 0)}))]

TwoLineRatchetTest_collect_failures_from_lines(fl, t, lines, path) ==
    IF include_file_regex(t).kind # "none" /\ ~path_search(include_file_regex(t), path)
    THEN fl
    ELSE LET stripped == [i \in 1..Len(lines) |-> rstrip(lines[i])]
             failures_at(ls, hits) ==
                 [k \in 1..Len(hits) |->
                     TestFailure(TestDef[t].name, path, hits[k] - 1,
                                 ls[hits[k] - 1] \o <<LF>> \o ls[hits[k]])]
             pairs(ls) ==
                 failures_at(ls, ascending({i \in 2..Len(ls) :
                     /\ search(TestDef[t].pattern, ls[i - 1], 0)
                     /\ search(TestDef[t].last_line_pattern, ls[i], 0)}))
         IN [fl EXCEPT ![t] = pairs(stripped)]

FullFileRatchetTest_collect_failures_from_lines(fl, t, lines, path) ==
    IF ~should_include_file(t, path) THEN fl
    ELSE LET check(content) ==
                 IF search(TestDef[t].pattern, content, TestDef[t].regex_flags)
                 THEN [fl EXCEPT ![t] = <<TestFailure(TestDef[t].name, path, 1, content)>>]
                 ELSE fl
         IN check(join(lines))

\* A two-pass strategy that reports the line its second pass matched (a
\* variant the code does not have).
TwoPassRatchetTest_collect_failures_from_lines_at_match(fl, t, lines, path) ==
    LET matches(f) ==
            {i \in (f.line_number + 1)..Len(lines) :
                search(TestDef[t].second_pass_pattern, lines[i], 0)}
        first_match(f) == CHOOSE i \in matches(f) : \A j \in matches(f) : i <= j
        report(line_number) ==
            TestFailure(TestDef[t].name, path, line_number, lines[line_number])
        failures_at(first_pass_failures, kept) ==
            [k \in 1..Len(kept) |-> report(first_match(first_pass_failures[kept[k]]))]
        second_pass(first_pass_failures) ==
            failures_at(first_pass_failures,
                        ascending({k \in 1..Len(first_pass_failures) :
                                      matches(first_pass_failures[k]) # {}}))
        after_first_pass(fl1) ==
            [fl1 EXCEPT ![t] = second_pass(fl1[TestDef[t].first_pass])]
    IN after_first_pass(RegexBasedRatchetTest_collect_failures_from_lines(
                            fl, TestDef[t].first_pass, lines, path))

\* The first pass of the model's two-pass test is a RegexBasedRatchetTest.
TwoPassRatchetTest_collect_failures_from_lines(fl, t, lines, path) ==
    LET has_second_pass_match(f) ==
            \E i \in (f.line_number + 1)..Len(lines) :
                search(TestDef[t].second_pass_pattern, lines[i], 0)
        failures_at(first_pass_failures, kept) ==
            [k \in 1..Len(kept) |->
                TestFailure(TestDef[t].name, path,
                            first_pass_failures[kept[k]].line_number,
                            first_pass_failures[kept[k]].line_contents)]
        second_pass(first_pass_failures) ==
            failures_at(first_pass_failures,
                        ascending({k \in 1..Len(first_pass_failures) :
                                      has_second_pass_match(first_pass_failures[k])}))
        after_first_pass(fl1) ==
            [fl1 EXCEPT ![t] = second_pass(fl1[TestDef[t].first_pass])]
    IN after_first_pass(RegexBasedRatchetTest_collect_failures_from_lines(
                            fl, TestDef[t].first_pass, lines, path))

\* Dispatch on the class of a test that is not a wrapper.
simple_collect_failures_from_lines(fl, t, lines, path) ==
    CASE TestDef[t].class = "RegexBasedRatchetTest" ->
            RegexBasedRatchetTest_collect_failures_from_lines(fl, t, lines, path)
      [] TestDef[t].class = "TwoLineRatchetTest" ->
            TwoLineRatchetTest_collect_failures_from_lines(fl, t, lines, path)
      [] TestDef[t].class = "FullFileRatchetTest" ->
            FullFileRatchetTest_collect_failures_from_lines(fl, t, lines, path)
      [] TestDef[t].class = "TwoPassRatchetTest" ->
            TwoPassRatchetTest_collect_failures_from_lines(fl, t, lines, path)
      [] OTHER -> fl

_TempComparisonRatchetTest_collect_failures_from_lines(fl, t, lines, path) ==
    LET base == TestDef[t].base_ratchet
        other == TestDef[t].compare_with_ratchet
        own(fl2) == [fl2 EXCEPT ![t] = fl2[base]]
    IN own(simple_collect_failures_from_lines(
               simple_collect_failures_from_lines(
                   [fl EXCEPT ![base] = <<>>, ![other] = <<>>], base, lines, path),
               other, lines, path))

collect_failures_from_lines(fl, t, lines, path) ==
    IF TestDef[t].class = "_TempComparisonRatchetTest"
    THEN _TempComparisonRatchetTest_collect_failures_from_lines(fl, t, lines, path)
    ELSE simple_collect_failures_from_lines(fl, t, lines, path)

\* collect_failures_from_file: read the lines of the file, then collect.
collect_failures_from_file(fl, tree, t, path) ==
    collect_failures_from_lines(fl, t, readlines(tree[path]), path)

\* RatchetTest.get_total_count_from_files: the heap after the call and the
\* count it returns.
RECURSIVE collect_selected(_, _, _, _)
collect_selected(fl, tree, t, fs) ==
    IF fs = <<>> THEN fl
    ELSE collect_selected(
            IF should_include_file(t, fs[1])
            THEN collect_failures_from_file(fl, tree, t, fs[1]) ELSE fl,
            tree, t, Tail(fs))

\* A get_total_count_from_files that keeps what the list held and appends
\* what it collects (a variant the code does not have).
RatchetTest_get_total_count_from_files_appending(fl, tree, t, fs) ==
    LET result(fl1) == [fl |-> [fl1 EXCEPT ![t] = fl[t] \o @],
                        count |-> Len(fl[t]) + Len(fl1[t])]
    IN result(collect_selected(clear_failures(fl, t), tree, t, fs))

RatchetTest_get_total_count_from_files(fl, tree, t, fs) ==
    LET result(fl1) == [fl |-> fl1, count |-> Len(fl1[t])]
    IN result(collect_selected(clear_failures(fl, t), tree, t, fs))

_TempComparisonRatchetTest_get_total_count_from_files(fl, tree, t, fs) ==
    LET base == TestDef[t].base_ratchet
        other == TestDef[t].compare_with_ratchet
        result(base_count, r2) ==
            [fl |-> r2.fl,
             count |-> IF base_count >= r2.count THEN base_count ELSE r2.count]
        compare(r1) ==
            result(r1.count,
                   RatchetTest_get_total_count_from_files(r1.fl, tree, other, fs))
    IN compare(RatchetTest_get_total_count_from_files(
                   [fl EXCEPT ![base] = <<>>, ![other] = <<>>], tree, base, fs))

get_total_count_from_files(fl, tree, t, fs) ==
    IF TestDef[t].class = "_TempComparisonRatchetTest"
    THEN _TempComparisonRatchetTest_get_total_count_from_files(fl, tree, t, fs)
    ELSE RatchetTest_get_total_count_from_files(fl, tree, t, fs)

-----------------------------------------------------------------------------
(* The baseline store (coderatchet/core/utils.py) *)

\* A load_ratchet_count that never reads the store (a variant the code does
\* not have).
load_ratchet_count_without_store(values, test_name) == 0

\* load_ratchet_count: get_ratchet_values().get(test_name, 0)
load_ratchet_count(values, test_name) ==
    IF test_name \in DOMAIN values THEN values[test_name] ELSE 0

\* write_ratchet_counts: the file is rewritten with counts_by_ratchet.
write_ratchet_counts(values, counts_by_ratchet) == counts_by_ratchet

\* The stores a caller writes by hand or a reference has committed.
StoredValues ==
    {<<>>} \cup {[name \in {"L"} |-> n] : n \in 0..MaxCount}
           \cup {[name \in {"L", "FF"} |-> n] : n \in 1..MaxCount}

-----------------------------------------------------------------------------
(* The original harness: ratchet_utils.py and test_all_ratchets.py *)

\* code.split("\n")
RECURSIVE legacy_split(_)
legacy_split(text) ==
    LET ends == {i \in 1..Len(text) : text[i] = LF}
    IN IF ends = {} THEN <<text>>
       ELSE LET cut == CHOOSE i \in ends : \A j \in ends : i <= j
            IN <<SubSeq(text, 1, cut - 1)>>
                   \o legacy_split(SubSeq(text, cut + 1, Len(text)))

\* The start offsets (0-based) of regex.finditer(text) for a literal.
RECURSIVE finditer(_, _, _)
finditer(pat, text, pos) ==
    LET starts == {i \in pos..(Len(text) - Len(pat)) :
                      SubSeq(text, i + 1, i + Len(pat)) = pat}
    IN IF starts = {} \/ pat = <<>> THEN <<>>
       ELSE LET m == CHOOSE i \in starts : \A j \in starts : i <= j
            IN <<m>> \o finditer(pat, text, m + Len(pat))

\* ratchet_utils.RegexBasedRatchetTest.collect_failures_from_lines: appends.
legacy_RegexBasedRatchetTest_collect_failures_from_lines(fl, t, lines, path) ==
    LET failures_at(hits) ==
            [k \in 1..Len(hits) |->
                TestFailure(TestDef[t].name, path, hits[k], lines[hits[k]])]
    IN [fl EXCEPT ![t] = @ \o
           failures_at(ascending({i \in 1..Len(lines) :
                                     search(TestDef[t].pattern, lines[i], 0)}))]

\* ratchet_utils.FullFileRatchetTest.collect_failures_from_lines: one failure
\* per match, at the line the match starts in.
legacy_FullFileRatchetTest_collect_failures_from_lines(fl, t, lines, path) ==
    LET line_number(file, start) ==
            Cardinality({i \in 1..start : file[i] = LF}) + 1
        failure_at(number) ==
            TestFailure(TestDef[t].name, path, number, lines[number])
        failures_at(file, starts) ==
            [k \in 1..Len(starts) |-> failure_at(line_number(file, starts[k]))]
        matches(file) == failures_at(file, finditer(TestDef[t].pattern, file, 0))
    IN [fl EXCEPT ![t] = @ \o matches(join(lines))]

legacy_collect_failures_from_file(fl, tree, t, path) ==
    IF TestDef[t].class = "legacy.FullFileRatchetTest"
    THEN legacy_FullFileRatchetTest_collect_failures_from_lines(
             fl, t, legacy_split(tree[path]), path)
    ELSE legacy_RegexBasedRatchetTest_collect_failures_from_lines(
             fl, t, legacy_split(tree[path]), path)

\* test_file_re = (test_[^\\/]*\.py)|(.*_test.py), searched in the path
legacy_test_file_re(path) ==
    \/ \E i, j \in 1..Len(path) :
          /\ i < j
          /\ path[i] = "test_"
          /\ path[j] = ".py"
          /\ \A k \in (i + 1)..(j - 1) : path[k] \notin {"/", "\\"}
    \/ \E i \in 1..(Len(path) - 1) : path[i] = "_test" /\ path[i + 1] = ".py"

legacy_files_to_evaluate(t, fs) ==
    SelectSeq(fs, LAMBDA f :
        /\ (TestDef[t].exclude_test_files => ~legacy_test_file_re(f))
        /\ (TestDef[t].include_file_regex.kind # "none"
                => path_search(TestDef[t].include_file_regex, f)))

RECURSIVE legacy_collect_all(_, _, _, _)
legacy_collect_all(fl, tree, t, fs) ==
    IF fs = <<>> THEN fl
    ELSE legacy_collect_all(legacy_collect_failures_from_file(fl, tree, t, fs[1]),
                            tree, t, Tail(fs))

\* A get_total_count_from_files that does not reset the failure list first
\* (a variant the code does not have).
legacy_get_total_count_from_files_keeping(fl, tree, t, fs) ==
    LET result(fl1) == [fl |-> fl1, count |-> Len(fl1[t])]
    IN result(legacy_collect_all(fl, tree, t, legacy_files_to_evaluate(t, fs)))

\* ratchet_utils.RatchetTest.get_total_count_from_files
legacy_get_total_count_from_files(fl, tree, t, fs) ==
    LET result(fl1) == [fl |-> fl1, count |-> Len(fl1[t])]
    IN result(legacy_collect_all([fl EXCEPT ![t] = <<>>], tree, t,
                                 legacy_files_to_evaluate(t, fs)))

\* get_ratchet_test_files(): the Python files of the repository.
get_ratchet_test_files == <<PathA, PathTestB>>

\* test_all_ratchets.update: the counts of freshly built test instances.
update_counts(tree) ==
    [name \in {TestDef[t].name : t \in LegacyTests} |->
        LET t == CHOOSE u \in LegacyTests : TestDef[u].name = name
        IN legacy_get_total_count_from_files(
               [u \in Tests |-> <<>>], tree, t, get_ratchet_test_files).count]

\* The assertion of ratchet_utils.RatchetTest.test
test_passes(actual_offenses, allowed) == actual_offenses <= allowed

\* CIRatchetRunner.run from "Clear any existing failures" on: the heap after
\* the run and the value returned.
RECURSIVE ci_collect_ratchets(_, _, _, _)
ci_collect_ratchets(fl, ratchets, lines, path) ==
    IF ratchets = <<>> THEN fl
    ELSE ci_collect_ratchets(
            collect_failures_from_lines(fl, ratchets[1], lines, path),
            Tail(ratchets), lines, path)

RECURSIVE ci_collect_files(_, _, _, _)
ci_collect_files(fl, tree, ratchets, changed_files) ==
    IF changed_files = <<>> THEN fl
    ELSE ci_collect_files(
            IF changed_files[1][Len(changed_files[1])] # ".py" THEN fl
            ELSE ci_collect_ratchets(fl, ratchets, readlines(tree[changed_files[1]]),
                                     changed_files[1]),
            tree, ratchets, Tail(changed_files))

RECURSIVE ci_clear(_, _)
ci_clear(fl, ratchets) ==
    IF ratchets = <<>> THEN fl
    ELSE ci_clear(clear_failures(fl, ratchets[1]), Tail(ratchets))

RECURSIVE ci_all_failures(_, _)
ci_all_failures(fl, ratchets) ==
    IF ratchets = <<>> THEN <<>>
    ELSE fl[ratchets[1]] \o ci_all_failures(fl, Tail(ratchets))

CIRatchetRunner_run(fl, tree, ratchets, changed_files, fail_on_violations) ==
    IF changed_files = <<>> THEN [fl |-> fl, ok |-> TRUE]
    ELSE LET result(fl1) ==
                 [fl |-> fl1,
                  ok |-> ~(ci_all_failures(fl1, ratchets) # <<>>
                           /\ fail_on_violations)]
         IN result(ci_collect_files(ci_clear(fl, ratchets), tree, ratchets,
                                    changed_files))

-----------------------------------------------------------------------------
(* Operations of the engine *)

NoOp == [op |-> "init", test |-> "none", files |-> <<>>, path |-> <<>>,
         lines |-> <<>>, count |-> 0, ok |-> TRUE, strict |-> FALSE,
         again |-> FALSE, updated |-> FALSE,
         match_examples |-> <<>>, non_match_examples |-> <<>>,
         started |-> <<>>, error |-> "none", pattern |-> 0,
         tests |-> <<>>, limit |-> 0, include_commits |-> FALSE,
         repository |-> <<>>, collected |-> <<>>, result |-> <<>>]

\* The record of an operation: "updated" (the store was last written by
\* update and no file has changed since) is carried over from the record
\* before.
Op(name, t) == [NoOp EXCEPT !.op = name, !.test = t, !.updated = last.updated]

\* The test suites a run is configured with.  A wrapper's parts (the first
\* pass of TP, the two ratchets of CMP) exist whether or not they are in it.
Suites == {{"L", "T2"}, {"FF", "FP", "TP"}, {"CMP", "T2"}, {"FFI"},
           {"IN", "IX"}}

\* The working trees a run starts from: any text in a.py, at most one line
\* in the test file.
WorkingTrees ==
    {tree \in [Paths -> FileTexts] : Len(readlines(tree[PathTestB])) <= 1}

\* The lines handed to collect_failures_from_lines: those of a file of the
\* working tree, or none (src = <<>>); the path they are reported under is
\* chosen independently.
lines_of(tree, src) == IF src = <<>> THEN <<>> ELSE readlines(tree[src])

CollectFailuresFromLines(t, lines, path) ==
    /\ failures' = collect_failures_from_lines(failures, t, lines, path)
    /\ last' = [Op("collect_failures_from_lines", t) EXCEPT
                    !.path = path, !.lines = lines]
    /\ UNCHANGED <<allowed_count, ratchet_values, files, suite>>
    /\ UNCHANGED <<gitVars, managerVars>>

CollectFailuresFromFile(t, path) ==
    /\ failures' = collect_failures_from_file(failures, files, t, path)
    /\ last' = [Op("collect_failures_from_file", t) EXCEPT
                    !.path = path, !.lines = readlines(files[path])]
    /\ UNCHANGED <<allowed_count, ratchet_values, files, suite>>
    /\ UNCHANGED <<gitVars, managerVars>>

\* A get_total_count_from_files that also ratchets the stored count down to
\* the count it found (a variant the code does not have).
GetTotalCountFromFiles_ratcheting(t, fs) ==
    LET name == TestDef[t].name
        returns(r) ==
            /\ failures' = r.fl
            /\ ratchet_values' =
                   IF r.count < load_ratchet_count(ratchet_values, name)
                   THEN [n \in DOMAIN ratchet_values \cup {name} |->
                            IF n = name THEN r.count ELSE ratchet_values[n]]
                   ELSE ratchet_values
            /\ last' = [Op("get_total_count_from_files", t) EXCEPT
                            !.files = fs, !.count = r.count]
    IN /\ returns(get_total_count_from_files(failures, files, t, fs))
       /\ UNCHANGED <<allowed_count, files, suite>>
       /\ UNCHANGED <<gitVars, managerVars>>

GetTotalCountFromFiles(t, fs) ==
    LET returns(r) ==
            /\ failures' = r.fl
            /\ last' = [Op("get_total_count_from_files", t) EXCEPT
                            !.files = fs, !.count = r.count,
                            !.again = /\ last.op = "get_total_count_from_files"
                                      /\ last.test = t
                                      /\ last.files = fs]
    IN /\ returns(get_total_count_from_files(failures, files, t, fs))
       /\ UNCHANGED <<allowed_count, ratchet_values, files, suite>>
       /\ UNCHANGED <<gitVars, managerVars>>

ClearFailures(t) ==
    /\ failures' = clear_failures(failures, t)
    /\ last' = Op("clear_failures", t)
    /\ UNCHANGED <<allowed_count, ratchet_values, files, suite>>
    /\ UNCHANGED <<gitVars, managerVars>>

\* PatternManager.__init__, in a process that has compiled nothing yet.
InitManager ==
    /\ _pattern_cache = <<>>
    /\ _cache_generation = 0
    /\ re_cache = <<>>
    /\ patterns = <<>>
    /\ lookups = {}

InitGitIdle ==
    /\ head = "main"
    /\ prev_ref = "none"
    /\ stash = <<>>
    /\ local_changes = "none"
    /\ committed = <<>>
    /\ cmp = <<>>
    /\ InitManager

Init ==
    /\ failures = [t \in Tests |-> <<>>]
    /\ allowed_count = [t \in Tests |-> 0]
    /\ ratchet_values = <<>>
    /\ files \in WorkingTrees
    /\ suite \in Suites
    /\ last = NoOp
    /\ InitGitIdle

Next ==
    \/ \E t \in suite, src \in Paths \cup {<<>>}, path \in Paths :
            CollectFailuresFromLines(t, lines_of(files, src), path)
    \/ \E t \in suite, path \in Paths : CollectFailuresFromFile(t, path)
    \/ \E t \in suite, fs \in FileLists : GetTotalCountFromFiles(t, fs)
    \/ \E t \in suite : ClearFailures(t)

Spec == Init /\ [][Next]_vars

-----------------------------------------------------------------------------
(* The baseline workflow: update, test_ratchet, the CI runner *)

\* test_all_ratchets.update
Update ==
    /\ ratchet_values' = write_ratchet_counts(ratchet_values, update_counts(files))
    /\ last' = [Op("update", "none") EXCEPT !.updated = TRUE]
    /\ UNCHANGED <<failures, allowed_count, files, suite>>
    /\ UNCHANGED <<gitVars, managerVars>>

\* test_all_ratchets.test_ratchet: set_allowed_count(load_ratchet_count(name)),
\* then RatchetTest.test().
TestRatchet(t) ==
    LET ratchet_value == load_ratchet_count(ratchet_values, TestDef[t].name)
        returns(r) ==
            /\ failures' = r.fl
            /\ last' = [Op("test_ratchet", t) EXCEPT
                            !.files = get_ratchet_test_files,
                            !.count = r.count,
                            !.ok = test_passes(r.count, ratchet_value)]
    IN /\ allowed_count' = [allowed_count EXCEPT ![t] = ratchet_value]
       /\ returns(legacy_get_total_count_from_files(failures, files, t,
                                                    get_ratchet_test_files))
       /\ UNCHANGED <<ratchet_values, files, suite>>
       /\ UNCHANGED <<gitVars, managerVars>>

\* CIRatchetRunner.run over the changed files git reports.
CIRun(ratchets, changed_files, fail_on_violations) ==
    LET returns(r) ==
            /\ failures' = r.fl
            /\ last' = [Op("ci_run", "none") EXCEPT
                            !.files = changed_files, !.ok = r.ok,
                            !.strict = fail_on_violations]
    IN /\ returns(CIRatchetRunner_run(failures, files, ratchets, changed_files,
                                      fail_on_violations))
       /\ UNCHANGED <<allowed_count, ratchet_values, files, suite>>
       /\ UNCHANGED <<gitVars, managerVars>>

\* An explicit write of the baseline store (write_ratchet_counts called
\* with counts chosen by the caller).
WriteRatchetCounts(counts) ==
    /\ ratchet_values' = write_ratchet_counts(ratchet_values, counts)
    /\ last' = [Op("write_ratchet_counts", "none") EXCEPT !.updated = FALSE]
    /\ UNCHANGED <<failures, allowed_count, files, suite>>
    /\ UNCHANGED <<gitVars, managerVars>>

\* RegexBasedRatchetTest.__attrs_post_init__ (inherited by
\* FullFileRatchetTest): TRUE when it returns, FALSE when it raises
\* RatchetError.  Every example is searched with the compiled pattern.
RegexBasedRatchetTest_attrs_post_init(t, match_examples, non_match_examples) ==
    /\ \A k \in 1..Len(match_examples) :
            search(TestDef[t].pattern, match_examples[k], 0)
    /\ \A k \in 1..Len(non_match_examples) :
            ~search(TestDef[t].pattern, non_match_examples[k], 0)

\* TwoPassRatchetTest.__attrs_post_init__: every example is searched with
\* the compiled second-pass pattern.
TwoPassRatchetTest_attrs_post_init(t, match_examples, non_match_examples) ==
    /\ \A k \in 1..Len(match_examples) :
            search(TestDef[t].second_pass_pattern, match_examples[k], 0)
    /\ \A k \in 1..Len(non_match_examples) :
            ~search(TestDef[t].second_pass_pattern, non_match_examples[k], 0)

\* __attrs_post_init__ of the class of t.  The classes that inherit
\* RatchetTest.__attrs_post_init__ (TwoLineRatchetTest,
\* _TempComparisonRatchetTest) look at no example.
attrs_post_init(t, match_examples, non_match_examples) ==
    CASE TestDef[t].class \in {"RegexBasedRatchetTest", "FullFileRatchetTest"} ->
            RegexBasedRatchetTest_attrs_post_init(t, match_examples, non_match_examples)
      [] TestDef[t].class = "TwoPassRatchetTest" ->
            TwoPassRatchetTest_attrs_post_init(t, match_examples, non_match_examples)
      [] OTHER -> TRUE

\* A test with the class and patterns of t is constructed anew with the
\* given examples and without an explicit allowed_count: the attribute
\* default reads the store (RatchetTest._get_allowed_count), then
\* __attrs_post_init__ runs.  When it raises there is no new instance.
ConstructWithExamples(t, match_examples, non_match_examples) ==
    LET constructed(ok) ==
            /\ allowed_count' =
                    IF ok THEN [allowed_count EXCEPT
                                  ![t] = load_ratchet_count(ratchet_values,
                                                            TestDef[t].name)]
                    ELSE allowed_count
            /\ failures' = IF ok THEN [failures EXCEPT ![t] = <<>>] ELSE failures
            /\ last' = [Op("construct", t) EXCEPT
                            !.ok = ok,
                            !.match_examples = match_examples,
                            !.non_match_examples = non_match_examples]
    IN /\ constructed(attrs_post_init(t, match_examples, non_match_examples))
       /\ UNCHANGED <<ratchet_values, files, suite>>
       /\ UNCHANGED <<gitVars, managerVars>>

\* A test constructed without examples.
Construct(t) == ConstructWithExamples(t, <<>>, <<>>)

\* The examples a test is constructed with: one-line and two-line texts.
Examples == {<<"a">>, <<"b">>, <<"a", LF, "a">>, <<"a", LF, "b">>}

\* The example tuples of a construction: none or one example.
ExampleTuples == seqs_upto(Examples, 1)

\* A developer rewrites a file of the working tree.
EditFile(path, text) ==
    /\ files[path] # text
    /\ files' = [files EXCEPT ![path] = text]
    /\ last' = [Op("edit_file", "none") EXCEPT !.path = path, !.updated = FALSE]
    /\ UNCHANGED <<failures, allowed_count, ratchet_values, suite>>
    /\ UNCHANGED <<gitVars, managerVars>>

\* The ratchets the CI runner is built with.
CIRatchets == <<"L">>

\* The suite is one line-match test, built with an allowed_count among
\* "allowed"; the store file does not exist yet.
InitBaseline(allowed) ==
    /\ failures = [t \in Tests |-> <<>>]
    /\ allowed_count \in {[t \in Tests |-> IF t = "L" THEN n ELSE 0] :
                             n \in allowed}
    /\ ratchet_values = <<>>
    /\ files \in WorkingTrees
    /\ suite = {"L"}
    /\ last = NoOp
    /\ InitGitIdle

\* The baseline workflow: update and explicit writes of the store, the
\* harness test, and evaluations of a core test in between.
NextBaseline ==
    \/ Update
    \/ \E t \in LegacyTests : TestRatchet(t)
    \/ \E t \in suite, fs \in FileLists : GetTotalCountFromFiles(t, fs)
    \/ \E t \in suite, path \in Paths : CollectFailuresFromFile(t, path)
    \/ \E counts \in StoredValues : WriteRatchetCounts(counts)
    \/ \E t \in suite : Construct(t)

SpecBaseline == InitBaseline({0}) /\ [][NextBaseline]_vars

\* What an edit leaves in a file: nothing, or one line.
EditTexts == {text_of(ls) : ls \in seqs_upto(LineSet, 1)}

\* The harness alone, while developers edit a file and the store in
\* between: update, the harness test, edits and explicit writes.
NextHarness ==
    \/ Update
    \/ \E t \in LegacyTests : TestRatchet(t)
    \/ \E text \in EditTexts : EditFile(PathA, text)
    \/ \E counts \in StoredValues : WriteRatchetCounts(counts)

SpecHarness == InitBaseline({0}) /\ [][NextHarness]_vars

\* Construction of the tests of a suite, with examples, while the store is
\* written in between.
InitConstruct ==
    /\ failures = [t \in Tests |-> <<>>]
    /\ allowed_count = [t \in Tests |-> 0]
    /\ ratchet_values = <<>>
    /\ files = [path \in Paths |-> <<>>]
    /\ suite \in Suites
    /\ last = NoOp
    /\ InitGitIdle

NextConstruct ==
    \/ \E t \in suite, match_examples \in ExampleTuples,
          non_match_examples \in ExampleTuples :
            ConstructWithExamples(t, match_examples, non_match_examples)
    \/ \E counts \in StoredValues : WriteRatchetCounts(counts)

SpecConstruct == InitConstruct /\ [][NextConstruct]_vars

\* The two places that report a pass or a regression: the harness test
\* and the CI runner.
NextVerdict ==
    \/ Update
    \/ \E t \in LegacyTests : TestRatchet(t)
    \/ \E cf \in FileLists, fov \in BOOLEAN : CIRun(CIRatchets, cf, fov)

SpecVerdict == InitBaseline(0..MaxCount) /\ [][NextVerdict]_vars

-----------------------------------------------------------------------------
(* Files that cannot be read *)

\* What the working tree holds at a path that open() fails on: no file, or
\* a file the process may not read (or cannot decode).
NoFile == <<"ENOENT">>
Unreadable == <<"EACCES">>

\* filepath.exists()
exists(tree, path) == tree[path] # NoFile

\* open(filepath) / f.readlines() raises IOError or UnicodeDecodeError.
open_raises(tree, path) == tree[path] \in {NoFile, Unreadable}

\* RatchetTest.collect_failures_from_file with its except branch: the heap
\* after the call, and whether RatchetError is raised to the caller.
collect_failures_from_file_or_raise(fl, tree, t, path) ==
    IF open_raises(tree, path)
    THEN [fl |-> fl, raised |-> TRUE]
    ELSE [fl |-> collect_failures_from_file(fl, tree, t, path), raised |-> FALSE]

\* The loop of run_ratchets_on_file over its tests: r is the heap and the
\* failures gathered so far.  A RatchetError of a test is logged and the
\* loop continues.
RECURSIVE run_ratchets_loop(_, _, _, _)
run_ratchets_loop(r, tree, path, tests) ==
    IF tests = <<>> THEN r
    ELSE LET extended(c) ==
                 IF c.raised THEN r
                 ELSE [fl |-> c.fl, failures |-> r.failures \o c.fl[tests[1]]]
         IN run_ratchets_loop(
                IF should_include_file(tests[1], path)
                THEN extended(collect_failures_from_file_or_raise(
                                  r.fl, tree, tests[1], path))
                ELSE r,
                tree, path, Tail(tests))

\* run_ratchets_on_file: the heap after the call, the failures returned and
\* whether RatchetError is raised to the caller.
run_ratchets_on_file(fl, tree, path, tests) ==
    IF ~exists(tree, path)
    THEN [fl |-> fl, failures |-> <<>>, raised |-> TRUE]
    ELSE LET returns(r) == [fl |-> r.fl, failures |-> r.failures, raised |-> FALSE]
         IN returns(run_ratchets_loop([fl |-> fl, failures |-> <<>>],
                                      tree, path, tests))

\* test.collect_failures_from_file(filepath) called by a client.
CollectFailuresFromFileOrRaise(t, path) ==
    LET returns(c) ==
            /\ failures' = c.fl
            /\ last' = [Op("collect_failures_from_file", t) EXCEPT
                            !.path = path, !.ok = ~c.raised,
                            !.count = Len(c.fl[t])]
    IN /\ returns(collect_failures_from_file_or_raise(failures, files, t, path))
       /\ UNCHANGED <<allowed_count, ratchet_values, files, suite>>
       /\ UNCHANGED <<gitVars, managerVars>>

\* run_ratchets_on_file(filepath, tests) called by a client.
RunRatchetsOnFile(path, tests) ==
    LET returns(r) ==
            /\ failures' = r.fl
            /\ last' = [Op("run_ratchets_on_file", "none") EXCEPT
                            !.path = path, !.files = tests, !.ok = ~r.raised,
                            !.count = Len(r.failures)]
    IN /\ returns(run_ratchets_on_file(failures, files, path, tests))
       /\ UNCHANGED <<allowed_count, ratchet_values, files, suite>>
       /\ UNCHANGED <<gitVars, managerVars>>

\* The tests of the runs: a line-match test, and one that excludes test
\* files.
ReadSuite == {"L", "FP"}

\* The test lists run_ratchets_on_file is given.
TestLists == {ts \in seqs_upto(ReadSuite, Cardinality(ReadSuite)) :
                 /\ ts # <<>>
                 /\ \A i, j \in 1..Len(ts) : i # j => ts[i] # ts[j]}

\* The working trees of the runs: every path holds a short text, no file, or
\* an unreadable file.
ReadTrees == [Paths -> EditTexts \cup {NoFile, Unreadable}]

InitRead ==
    /\ failures = [t \in Tests |-> <<>>]
    /\ allowed_count = [t \in Tests |-> 0]
    /\ ratchet_values = <<>>
    /\ files \in ReadTrees
    /\ suite = ReadSuite
    /\ last = NoOp
    /\ InitGitIdle

NextRead ==
    \/ \E t \in suite, path \in Paths : CollectFailuresFromFileOrRaise(t, path)
    \/ \E path \in Paths, tests \in TestLists : RunRatchetsOnFile(path, tests)

SpecRead == InitRead /\ [][NextRead]_vars

-----------------------------------------------------------------------------

(* git, as the comparator drives it (coderatchet/core/comparison.py) *)

Refs == {"main", "prev"}

\* The files committed at each reference.
CommittedFiles ==
    [r \in Refs |->
        IF r = "main"
        THEN [p \in Paths |-> IF p = PathA THEN text_of(<<LineA, LineB>>)
                              ELSE text_of(<<LineA>>)]
        ELSE [p \in Paths |-> <<>>]]

\* git stash push -m coderatchet_temp_stash: exits 0 whether or not there was
\* anything to save; the saved change goes on top of the stack.
git_stash_push(g) ==
    IF g.local_changes = "none" THEN g
    ELSE [g EXCEPT !.stash = <<g.local_changes>> \o g.stash,
                   !.local_changes = "none"]

\* git checkout <state>: fails on an unknown reference; "HEAD" switches
\* nothing and records nothing; a reference becomes HEAD and the reference
\* left behind becomes "@{-1}".
git_checkout_ok(g, state) == state = "HEAD" \/ state \in Refs

git_checkout(g, state) ==
    IF state = "HEAD" THEN g
    ELSE [g EXCEPT !.head = state, !.prev_ref = g.head]

\* git checkout -: back to "@{-1}", failing when there is none.
git_checkout_previous_ok(g) == g.prev_ref # "none"

git_checkout_previous(g) ==
    [g EXCEPT !.head = g.prev_ref, !.prev_ref = g.head]

\* git stash pop: the newest entry is applied to the working tree.
git_stash_pop(g) ==
    [g EXCEPT !.stash = Tail(g.stash), !.local_changes = g.stash[1]]

git == [head |-> head, prev_ref |-> prev_ref, stash |-> stash,
        local_changes |-> local_changes]

SetGit(g) ==
    /\ head' = g.head
    /\ prev_ref' = g.prev_ref
    /\ stash' = g.stash
    /\ local_changes' = g.local_changes
    /\ ratchet_values' = committed[g.head]
    /\ files' = CommittedFiles[g.head]

\* The tests get_ratchet_tests() returns to compare_ratchets.
ComparedTests == {"L", "FF"}

\* A _get_ratchet_counts whose every load fails, so that each count is the 0
\* of the except branch (a variant the code does not have).
_get_ratchet_counts_failing(values, tests) ==
    [name \in {TestDef[t].name : t \in tests} |-> 0]

\* _get_ratchet_counts: the stored count of every test, by name.
_get_ratchet_counts(values, tests) ==
    [name \in {TestDef[t].name : t \in tests} |-> load_ratchet_count(values, name)]

Idle == [pc |-> "idle", phase |-> 0, state |-> "HEAD",
         previous_state |-> "HEAD", current_state |-> "HEAD",
         stashed |-> FALSE, error |-> FALSE,
         previous_counts |-> <<>>, current_counts |-> <<>>,
         counted_at |-> <<>>,
         entry_head |-> "none", entry_changes |-> "none", entry_stash |-> <<>>]

gitFrame == UNCHANGED <<failures, allowed_count, suite, last, committed, managerVars>>

\* compare_ratchets(previous_state, current_state) is called: the first
\* "with _checkout_state(previous_state)" is entered.
Compare(p, previous_state, current_state) ==
    /\ cmp[p].pc = "idle"
    /\ cmp' = [cmp EXCEPT ![p] =
                  [Idle EXCEPT !.pc = "stash", !.phase = 1,
                               !.state = previous_state,
                               !.previous_state = previous_state,
                               !.current_state = current_state,
                               !.entry_head = head,
                               !.entry_changes = local_changes,
                               !.entry_stash = stash]]
    /\ UNCHANGED <<head, prev_ref, stash, local_changes, ratchet_values, files>>
    /\ gitFrame

\* _checkout_state.__enter__, first half: git stash push
EnterStash(p) ==
    /\ cmp[p].pc = "stash"
    /\ SetGit(git_stash_push(git))
    /\ cmp' = [cmp EXCEPT ![p].pc = "checkout", ![p].stashed = TRUE]
    /\ gitFrame

\* _checkout_state.__enter__, second half: git checkout <state>; a failure
\* is raised out of __enter__, so __exit__ does not run.
EnterCheckout(p) ==
    /\ cmp[p].pc = "checkout"
    /\ IF git_checkout_ok(git, cmp[p].state)
       THEN /\ SetGit(git_checkout(git, cmp[p].state))
            /\ cmp' = [cmp EXCEPT ![p].pc = "body"]
       ELSE /\ UNCHANGED <<head, prev_ref, stash, local_changes, ratchet_values, files>>
            /\ cmp' = [cmp EXCEPT ![p].pc = "raised", ![p].error = TRUE]
    /\ gitFrame

\* The body of the with block: _get_ratchet_counts(tests)
Body(p) ==
    /\ cmp[p].pc = "body"
    /\ LET counts == _get_ratchet_counts(ratchet_values, ComparedTests)
       IN cmp' = [cmp EXCEPT
                     ![p].pc = "restore",
                     ![p].previous_counts = IF cmp[p].phase = 1 THEN counts ELSE @,
                     ![p].current_counts = IF cmp[p].phase = 2 THEN counts ELSE @,
                     ![p].counted_at = Append(@, head)]
    /\ UNCHANGED <<head, prev_ref, stash, local_changes, ratchet_values, files>>
    /\ gitFrame

\* An error raised while the target is checked out (an interrupt in the
\* body): __exit__ runs, then the error propagates.
BodyRaises(p) ==
    /\ cmp[p].pc = "body"
    /\ cmp' = [cmp EXCEPT ![p].pc = "restore", ![p].error = TRUE]
    /\ UNCHANGED <<head, prev_ref, stash, local_changes, ratchet_values, files>>
    /\ gitFrame

\* _checkout_state.__exit__, first half: git checkout -
ExitCheckout(p) ==
    /\ cmp[p].pc = "restore"
    /\ IF git_checkout_previous_ok(git)
       THEN /\ SetGit(git_checkout_previous(git))
            /\ cmp' = [cmp EXCEPT ![p].pc = IF cmp[p].stashed THEN "pop" ELSE "after_with"]
       ELSE /\ UNCHANGED <<head, prev_ref, stash, local_changes, ratchet_values, files>>
            /\ cmp' = [cmp EXCEPT ![p].pc = "raised", ![p].error = TRUE]
    /\ gitFrame

\* _checkout_state.__exit__, second half: git stash list, then git stash pop
\* when the list is not empty.
ExitPop(p) ==
    /\ cmp[p].pc = "pop"
    /\ IF stash # <<>>
       THEN SetGit(git_stash_pop(git))
       ELSE UNCHANGED <<head, prev_ref, stash, local_changes, ratchet_values, files>>
    /\ cmp' = [cmp EXCEPT ![p].pc = "after_with"]
    /\ gitFrame

\* After a with block: a pending error propagates; after the first block the
\* second "with _checkout_state(current_state)" is entered; after the second
\* the comparisons are computed and returned.
AfterWith(p) ==
    /\ cmp[p].pc = "after_with"
    /\ cmp' = [cmp EXCEPT ![p] =
                  IF cmp[p].error THEN [@ EXCEPT !.pc = "raised"]
                  ELSE IF cmp[p].phase = 1
                  THEN [@ EXCEPT !.pc = "stash", !.phase = 2,
                                 !.state = cmp[p].current_state,
                                 !.stashed = FALSE,
                                 !.entry_head = head,
                                 !.entry_changes = local_changes,
                                 !.entry_stash = stash]
                  ELSE [@ EXCEPT !.pc = "done"]]
    /\ UNCHANGED <<head, prev_ref, stash, local_changes, ratchet_values, files>>
    /\ gitFrame

\* The references a caller can pass (one of them does not exist).
States == Refs \cup {"HEAD", "nosuch"}

InitGit(procs, stores) ==
    /\ failures = [t \in Tests |-> <<>>]
    /\ allowed_count = [t \in Tests |-> 0]
    /\ suite = ComparedTests
    /\ last = NoOp
    /\ committed \in [Refs -> stores]
    /\ head = "main"
    /\ prev_ref \in {"none", "prev"}
    /\ stash \in {<<>>, <<"old">>}
    /\ local_changes \in {"none", "wip"}
    /\ ratchet_values = committed[head]
    /\ files = CommittedFiles[head]
    /\ cmp = [p \in procs |-> Idle]
    /\ InitManager

Step(p) ==
    \/ EnterStash(p)
    \/ EnterCheckout(p)
    \/ Body(p)
    \/ BodyRaises(p)
    \/ ExitCheckout(p)
    \/ ExitPop(p)
    \/ AfterWith(p)

NextGit ==
    \E p \in DOMAIN cmp :
        \/ \E ps \in States, cs \in States : Compare(p, ps, cs)
        \/ Step(p)

\* One comparison on a working tree.
SpecGit == InitGit({1}, StoredValues) /\ [][NextGit]_vars

\* Two comparisons started on the same working tree (two invocations of the
\* compare command) against the previous reference; nothing in the code
\* serialises them.
NextGit2 ==
    \E p \in DOMAIN cmp :
        \/ \E cs \in {"HEAD", "main"} : Compare(p, "prev", cs)
        \/ Step(p)

SpecGit2 == InitGit({1, 2}, {<<>>}) /\ [][NextGit2]_vars

-----------------------------------------------------------------------------
(* git commands and their arguments (coderatchet/core/git_integration.py) *)

\* An argument is a sequence of characters, as a path is; a command is a
\* sequence of arguments.
Metacharacters == {";", "|", "&", ">", "<", "BACKTICK", "$", "{", "}", "[", "]"}

\* any(c in arg for c in [";", "|", ...])
has_metacharacter(arg) == \E i \in 1..Len(arg) : arg[i] \in Metacharacters

\* arg.startswith("--format=") or arg.startswith("--pretty=")
is_format_flag(arg) == arg # <<>> /\ arg[1] \in {"--format=", "--pretty="}

\* The validation loop of _run_git_command: TRUE when no GitError is raised.
arguments_valid(cmd) ==
    \A k \in 1..Len(cmd) : has_metacharacter(cmd[k]) => is_format_flag(cmd[k])

\* The argument list subprocess is started with.
argv(cmd) == <<<<"git">>>> \o cmd

\* get_file_history's command for a file path.
get_file_history_cmd(filepath) ==
    <<<<"log">>, <<"--format=", "%H", "|", "%aI", "|", "%s">>, <<"--follow">>,
      <<"--">>, filepath>>

\* The file paths a caller asks the history of.
HistoryPaths == {PathA, PathA \o <<";", "rm">>, <<"$", "x">>}

\* The reference a state argument names to git.
ref_named(state) ==
    IF Len(state) = 1 /\ state[1] \in Refs \cup {"HEAD"} THEN state[1]
    ELSE "nosuch"

\* The state arguments compare_ratchets is given.
StateArguments == {<<"HEAD">>, <<"main">>, <<"prev">>, <<"prev", ";", "rm">>}

\* GitIntegration.get_file_history(filepath): _run_git_command validates
\* the arguments, then starts git log, which changes nothing.
GetFileHistory(filepath) ==
    /\ last' = [Op("get_file_history", "none") EXCEPT
                    !.path = filepath,
                    !.ok = arguments_valid(get_file_history_cmd(filepath)),
                    !.started =
                        IF arguments_valid(get_file_history_cmd(filepath))
                        THEN <<argv(get_file_history_cmd(filepath))>>
                        ELSE <<>>]
    /\ UNCHANGED <<failures, allowed_count, ratchet_values, files, suite>>
    /\ UNCHANGED <<gitVars, managerVars>>

\* _checkout_state(state).__enter__: git stash push, then git checkout
\* <state>; a failing checkout raises out of __enter__.
CheckoutStateEnter(state) ==
    LET checked_out(g) ==
            IF git_checkout_ok(g, ref_named(state))
            THEN SetGit(git_checkout(g, ref_named(state)))
            ELSE SetGit(g)
    IN /\ checked_out(git_stash_push(git))
       /\ last' = [Op("_checkout_state.__enter__", "none") EXCEPT
                       !.path = state,
                       !.ok = git_checkout_ok(git, ref_named(state)),
                       !.started =
                           <<argv(<<<<"stash">>, <<"push">>, <<"-m">>,
                                    <<"coderatchet_temp_stash">>>>),
                             argv(<<<<"checkout">>, state>>)>>]
       /\ UNCHANGED <<failures, allowed_count, suite, committed, cmp, managerVars>>

NextCommand ==
    \/ \E filepath \in HistoryPaths : GetFileHistory(filepath)
    \/ \E state \in StateArguments : CheckoutStateEnter(state)

\* git commands run through the two places that start them: the validated
\* runner and the scoped checkout.
SpecCommand == InitGit({1}, {<<>>}) /\ [][NextCommand]_vars

-----------------------------------------------------------------------------

(* Changed files (GitIntegration.get_changed_files) *)

\* HEAD when a commit is checked out instead of a branch: the commit at the
\* tip of main, or the one at the tip of prev.
DetachedHeads == {"main^0", "prev^0"}

\* The branch at whose tip the commit of HEAD is.
commit_of(h) == IF h \in {"main", "main^0"} THEN "main" ELSE "prev"

\* is_detached_head: git symbolic-ref -q HEAD exits 1 when HEAD is no
\* symbolic reference.
is_detached_head(g) == g.head \notin Refs

\* A check that finds no conflict (a variant the code does not have).
has_merge_conflicts_never(g) == FALSE

\* has_merge_conflicts: git diff --name-only --diff-filter=U prints the
\* unmerged paths.
has_merge_conflicts(g) == g.local_changes = "unmerged"

\* git merge-base <base_branch> HEAD: prev is the parent of main.
merge_base(base_branch, h) ==
    IF base_branch = "prev" \/ commit_of(h) = "prev" THEN "prev" ELSE "main"

\* git diff --name-only <commit>: the paths whose working-tree text differs
\* from the commit (an uncommitted change is one to a.py).
diff_name_only(g, commit) ==
    LET differs(p) ==
            \/ CommittedFiles[commit_of(g.head)][p] # CommittedFiles[commit][p]
            \/ (p = PathA /\ g.local_changes # "none")
    IN SelectSeq(<<PathA, PathTestB>>, differs)

\* get_changed_files(base_branch): whether it returns, the message of the
\* GitError it raises, and the list it returns.  base_branch "none" is None.
get_changed_files(g, base_branch) ==
    IF is_detached_head(g)
    THEN [ok |-> FALSE, error |-> "Repository is in detached HEAD state",
          files |-> <<>>]
    ELSE IF has_merge_conflicts(g)
    THEN [ok |-> FALSE, error |-> "Repository has merge conflicts",
          files |-> <<>>]
    ELSE [ok |-> TRUE, error |-> "none",
          files |-> diff_name_only(g, IF base_branch = "none"
                                      THEN commit_of(g.head)
                                      ELSE merge_base(base_branch, g.head))]

GetChangedFiles(base_branch) ==
    LET returns(r) ==
            last' = [Op("get_changed_files", "none") EXCEPT
                        !.ok = r.ok, !.error = r.error, !.files = r.files]
    IN /\ returns(get_changed_files(git, base_branch))
       /\ UNCHANGED <<failures, allowed_count, ratchet_values, files, suite>>
       /\ UNCHANGED <<gitVars, managerVars>>

\* The working tree follows HEAD to h.
SetHead(h) ==
    /\ head' = h
    /\ prev_ref' = head
    /\ ratchet_values' = committed[commit_of(h)]
    /\ files' = CommittedFiles[commit_of(h)]

\* A developer checks out a branch or a commit (git checkout <branch>,
\* git checkout <commit>); git refuses while paths are unmerged.
DeveloperCheckout(h) ==
    /\ h # head
    /\ local_changes # "unmerged"
    /\ SetHead(h)
    /\ last' = Op("git_checkout", "none")
    /\ UNCHANGED <<failures, allowed_count, suite, stash, local_changes,
                   committed, cmp, managerVars>>

\* A developer merges a branch and the merge stops on conflicts (git merge
\* feature), or resolves them and concludes the merge.
DeveloperMerge(outcome) ==
    /\ \/ outcome = "unmerged" /\ local_changes = "none"
       \/ outcome = "none" /\ local_changes = "unmerged"
    /\ local_changes' = outcome
    /\ last' = Op("git_merge", "none")
    /\ UNCHANGED <<failures, allowed_count, ratchet_values, files, suite,
                   head, prev_ref, stash, committed, cmp, managerVars>>

NextChanged ==
    \/ \E base_branch \in Refs \cup {"none"} : GetChangedFiles(base_branch)
    \/ \E h \in Refs \cup DetachedHeads : DeveloperCheckout(h)
    \/ \E outcome \in {"unmerged", "none"} : DeveloperMerge(outcome)

SpecChanged == InitGit({1}, {<<>>}) /\ [][NextChanged]_vars

-----------------------------------------------------------------------------

(* The pattern manager's operations *)

\* The (pattern, escape) pairs looked up in the runs, and the subject texts.
LookupPairs == {<<<<"a">>, TRUE>>, <<<<WordClass>>, FALSE>>}
SubjectTexts == {<<"a">>, <<"e_acute">>, <<WordClass>>}

managerFrame ==
    /\ UNCHANGED <<failures, allowed_count, ratchet_values, files, suite>>
    /\ UNCHANGED gitVars

\* PatternManager.get_pattern(pattern, escape)
GetPattern(pattern, escape) ==
    LET cache_key == <<pattern, escape, _cache_generation>>
        returns(object) ==
            /\ last' = [Op("get_pattern", "none") EXCEPT
                            !.path = pattern, !.ok = escape, !.pattern = object]
            /\ lookups' = lookups \cup
                    {[pattern |-> pattern, escape |-> escape,
                      generation |-> _cache_generation, object |-> object]}
        compiles(r) ==
            /\ patterns' = r.patterns
            /\ re_cache' = r.re_cache
            /\ _pattern_cache' = put(_pattern_cache, cache_key, r.object)
            /\ returns(r.object)
    IN /\ IF cache_key \in DOMAIN _pattern_cache
          THEN /\ returns(_pattern_cache[cache_key])
               /\ UNCHANGED <<_pattern_cache, re_cache, patterns>>
          ELSE compiles(re_compile(patterns, re_cache,
                           [atoms |-> atoms(optimize_pattern(pattern), escape),
                            flags |-> generation_flags(_cache_generation)]))
       /\ UNCHANGED _cache_generation
       /\ managerFrame

\* PatternManager.clear_cache()
ClearCache ==
    /\ _cache_generation < MaxGeneration
    /\ _pattern_cache' = <<>>
    /\ _cache_generation' = _cache_generation + 1
    /\ last' = Op("clear_cache", "none")
    /\ UNCHANGED <<re_cache, patterns, lookups>>
    /\ managerFrame

\* The re module drops its cached objects (re.purge(), or the cache has
\* overflowed while other code compiled patterns).
RePurge ==
    /\ re_cache # <<>>
    /\ re_cache' = <<>>
    /\ last' = Op("re_purge", "none")
    /\ UNCHANGED <<_pattern_cache, _cache_generation, patterns, lookups>>
    /\ managerFrame

NextPattern ==
    \/ \E pair \in LookupPairs : GetPattern(pair[1], pair[2])
    \/ ClearCache
    \/ RePurge

InitPattern ==
    /\ failures = [t \in Tests |-> <<>>]
    /\ allowed_count = [t \in Tests |-> 0]
    /\ ratchet_values = <<>>
    /\ files = [path \in Paths |-> <<>>]
    /\ suite = {}
    /\ last = NoOp
    /\ InitGitIdle

SpecPattern == InitPattern /\ [][NextPattern]_vars

-----------------------------------------------------------------------------

(* File exclusion by glob patterns *)

\* Paths and glob patterns are sequences of tokens: a name part ("test",
\* "other", "sub", ".py"), the separator "/", and in patterns "*" and a
\* leading "!".
MaxPatterns == 2

startswith(text, token) == text # <<>> /\ text[1] = token
endswith(text, token) == text # <<>> /\ text[Len(text)] = token
contains(text, token) == \E i \in 1..Len(text) : text[i] = token

\* fnmatch.fnmatch on a posix system: "*" matches any run of characters,
\* the separator included; every other token matches itself.
RECURSIVE fnmatch(_, _)
fnmatch(name, pat) ==
    IF pat = <<>> THEN name = <<>>
    ELSE IF pat[1] = "*"
         THEN \/ fnmatch(name, Tail(pat))
              \/ name # <<>> /\ fnmatch(Tail(name), pat)
    ELSE /\ name # <<>>
         /\ name[1] = pat[1]
         /\ fnmatch(Tail(name), Tail(pat))

\* str(Path(filepath)) for a relative path: repeated separators collapse.
RECURSIVE normalize(_)
normalize(filepath) ==
    IF Len(filepath) < 2 THEN filepath
    ELSE IF filepath[1] = "/" /\ filepath[2] = "/" THEN normalize(Tail(filepath))
    ELSE <<filepath[1]>> \o normalize(Tail(filepath))

\* filepath.split("/")
RECURSIVE split(_)
split(filepath) ==
    IF ~contains(filepath, "/") THEN <<filepath>>
    ELSE LET i == CHOOSE k \in 1..Len(filepath) :
                      /\ filepath[k] = "/"
                      /\ \A j \in 1..(k - 1) : filepath[j] # "/"
         IN <<SubSeq(filepath, 1, i - 1)>>
                \o split(SubSeq(filepath, i + 1, Len(filepath)))

\* Path(filepath).name
path_name(filepath) == split(filepath)[Len(split(filepath))]

\* pattern.rstrip("/")
RECURSIVE rstrip_separator(_)
rstrip_separator(pattern) ==
    IF endswith(pattern, "/")
    THEN rstrip_separator(SubSeq(pattern, 1, Len(pattern) - 1))
    ELSE pattern

\* The first loop of should_exclude_file: a directory pattern matches some
\* part of the path.
directory_pattern_matches(filepath, pattern) ==
    /\ ~startswith(pattern, "!")
    /\ endswith(pattern, "/")
    /\ \E k \in 1..Len(split(filepath)) :
           fnmatch(split(filepath)[k], rstrip_separator(pattern))

\* The second loop: a negation pattern matches the path, or the file name
\* when the pattern has no separator.
negation_pattern_matches(filepath, pattern) ==
    /\ startswith(pattern, "!")
    /\ IF contains(Tail(pattern), "/")
       THEN fnmatch(filepath, Tail(pattern))
       ELSE fnmatch(path_name(filepath), Tail(pattern))

\* The third loop: another exclusion pattern matches the path, or the file
\* name when the pattern has no separator.
exclusion_pattern_matches(filepath, pattern) ==
    /\ ~startswith(pattern, "!")
    /\ ~endswith(pattern, "/")
    /\ IF contains(pattern, "/")
       THEN fnmatch(filepath, pattern)
       ELSE fnmatch(path_name(filepath), pattern)

should_exclude_file(filepath, exclusion_patterns) ==
    LET normalized == normalize(filepath)
        indices == 1..Len(exclusion_patterns)
    IN IF \E i \in indices :
              directory_pattern_matches(normalized, exclusion_patterns[i])
       THEN TRUE
       ELSE IF \E i \in indices :
                   negation_pattern_matches(normalized, exclusion_patterns[i])
       THEN FALSE
       ELSE \E i \in indices :
                exclusion_pattern_matches(normalized, exclusion_patterns[i])

\* The files and the pattern lists should_exclude_file is called with.
ExcludedPaths ==
    {<<"test", ".py">>, <<"other", ".py">>,
     <<"sub", "/", "test", ".py">>, <<"sub", "/", "other", ".py">>,
     <<"sub", "/", "/", "test", ".py">>}

GlobPatterns ==
    {<<"*", ".py">>, <<"!", "test", ".py">>, <<"sub", "/">>,
     <<"sub", "/", "*">>, <<"!", "sub", "/", "test", ".py">>,
     <<"other", ".py">>}

PatternLists == seqs_upto(GlobPatterns, MaxPatterns)

ShouldExcludeFile(filepath, exclusion_patterns) ==
    /\ last' = [Op("should_exclude_file", "none") EXCEPT
                    !.path = filepath, !.files = exclusion_patterns,
                    !.ok = should_exclude_file(filepath, exclusion_patterns)]
    /\ UNCHANGED <<failures, allowed_count, ratchet_values, files, suite>>
    /\ UNCHANGED <<gitVars, managerVars>>

NextExclude ==
    \E filepath \in ExcludedPaths, exclusion_patterns \in PatternLists :
        ShouldExcludeFile(filepath, exclusion_patterns)

SpecExclude == InitPattern /\ [][NextExclude]_vars

-----------------------------------------------------------------------------

(* The recency detector (coderatchet/core/recent_failures.py) *)

MaxLimit == 2

\* content.splitlines(): the lines of a text without their terminators.
splitlines(text) ==
    [i \in 1..Len(readlines(text)) |->
        SelectSeq(readlines(text)[i], LAMBDA ch : ch # LF)]

\* The type of the filepath a test stores in its failures when it is handed
\* a Path: RegexBasedRatchetTest stores str(filepath), the other classes the
\* object they were given.
filepath_type(t) ==
    IF TestDef[t].class = "RegexBasedRatchetTest" THEN "str" ELSE "Path"

\* The failures of test._failures as get_recently_broken_ratchets sees them.
held_failures(fl, t) ==
    [i \in 1..Len(fl[t]) |->
        [test_name |-> fl[t][i].test_name,
         filepath |-> fl[t][i].filepath,
         filepath_type |-> filepath_type(t),
         line_number |-> fl[t][i].line_number,
         line_contents |-> fl[t][i].line_contents,
         commit_hash |-> "unset", commit_date |-> "unset",
         commit_message |-> "unset"]]

\* The inner loop of get_recently_broken_ratchets: one test over the files.
\* An inaccessible file is skipped; after every other file the failures the
\* test holds are appended to the list.
RECURSIVE check_files(_, _, _, _, _)
check_files(fl, collected, tree, t, fs) ==
    LET collect(fl1) ==
            check_files(fl1, collected \o held_failures(fl1, t), tree, t, Tail(fs))
    IN IF fs = <<>> THEN [fl |-> fl, collected |-> collected]
       ELSE IF open_raises(tree, fs[1])
            THEN check_files(fl, collected, tree, t, Tail(fs))
       ELSE collect(collect_failures_from_lines(fl, t, splitlines(tree[fs[1]]),
                                                fs[1]))

\* The outer loop: the tests in the order the set yields them.
RECURSIVE check_tests(_, _, _, _)
check_tests(fl, collected, tree, ts) ==
    LET continue(r) == check_tests(r.fl, r.collected, tree, Tail(ts))
    IN IF ts = <<>> THEN [fl |-> fl, collected |-> collected]
       ELSE continue(check_files(fl, collected, tree, ts[1],
                                 get_ratchet_test_files))

\* The key failures are deduplicated by.
failure_key(failure) ==
    <<failure.test_name, failure.filepath_type, failure.filepath,
      failure.line_number, failure.line_contents>>

\* A list handed on as it was collected (a variant the code does not have).
all_failures(failures_list) == failures_list

\* "Remove duplicates while preserving order"
unique_failures(failures_list) ==
    LET kept == {i \in 1..Len(failures_list) :
                    \A j \in 1..(i - 1) :
                        failure_key(failures_list[j]) # failure_key(failures_list[i])}
    IN [k \in 1..Cardinality(kept) |-> failures_list[ascending(kept)[k]]]

\* The paths in the order of their text.
SortedPaths == <<PathA, PathTestB>>
path_index(path) == CHOOSE i \in 1..Len(SortedPaths) : SortedPaths[i] = path

\* (f.filepath, f.line_number) < (g.filepath, g.line_number)
sort_key_less(f, g) ==
    \/ path_index(f.filepath) < path_index(g.filepath)
    \/ /\ f.filepath = g.filepath
       /\ f.line_number < g.line_number

\* list.sort raises TypeError when it has to compare a str with a Path.
sort_raises(failures_list) ==
    \E i, j \in 1..Len(failures_list) :
        failures_list[i].filepath_type # failures_list[j].filepath_type

\* list.sort(key=...): a stable sort.
sorted_failures(failures_list) ==
    LET position(i) ==
            1 + Cardinality({j \in 1..Len(failures_list) :
                    \/ sort_key_less(failures_list[j], failures_list[i])
                    \/ /\ ~sort_key_less(failures_list[i], failures_list[j])
                       /\ j < i})
    IN [k \in 1..Len(failures_list) |->
           failures_list[CHOOSE i \in 1..Len(failures_list) : position(i) = k]]

\* failures_list[:limit] for a limit that is not negative.
first_of(failures_list, limit) ==
    SubSeq(failures_list, 1,
           IF limit < Len(failures_list) THEN limit ELSE Len(failures_list))

\* The repository the query runs in: one without any commit, or one in
\* which every path has a last commit, a last commit with an empty subject,
\* or no commit (an untracked file).
Repositories ==
    {<<"unborn">>} \cup [Paths -> {"commit", "no_subject", "untracked"}]

get_last_commit_cmd(filepath) ==
    <<<<"log">>, <<"-1">>, <<"--format=", "%H", " ", "%ct", " ", "%s">>,
      <<"--">>, filepath>>

\* What the attribution of one failure does: the error it raises, or "none".
\* _run_git_command raises GitError for an argument that is not a str, for
\* one with a metacharacter, and when git exits with an error (git log in a
\* repository without commits); unpacking "hash timestamp" into three names
\* raises ValueError.
attribution_error(repository, failure) ==
    IF failure.filepath_type # "str" THEN "GitError"
    ELSE IF ~arguments_valid(get_last_commit_cmd(failure.filepath))
         THEN "GitError"
    ELSE IF repository = <<"unborn">> THEN "GitError"
    ELSE IF repository[failure.filepath] = "no_subject" THEN "ValueError"
    ELSE "none"

\* The BrokenRatchet built for one failure.
BrokenRatchet(repository, failure) ==
    IF repository[failure.filepath] = "commit"
    THEN [failure EXCEPT !.commit_hash = "c1", !.commit_date = "t1",
                         !.commit_message = "m1"]
    ELSE failure

\* get_recently_broken_ratchets: the heap after the call, the list that was
\* collected, the error raised ("none" when the call returns) and the list
\* returned.
get_recently_broken_ratchets(fl, tree, ts, limit, include_commits, repository) ==
    LET attribute(retained) ==
            IF \E i \in 1..Len(retained) :
                   attribution_error(repository, retained[i]) # "none"
            THEN [error |-> attribution_error(repository,
                      retained[CHOOSE i \in 1..Len(retained) :
                          /\ attribution_error(repository, retained[i]) # "none"
                          /\ \A j \in 1..(i - 1) :
                                attribution_error(repository, retained[j]) = "none"]),
                  result |-> <<>>]
            ELSE [error |-> "none",
                  result |-> [i \in 1..Len(retained) |->
                                 BrokenRatchet(repository, retained[i])]]
        finish(distinct) ==
            IF sort_raises(distinct) THEN [error |-> "TypeError", result |-> <<>>]
            ELSE IF include_commits
                 THEN attribute(first_of(sorted_failures(distinct), limit))
            ELSE [error |-> "none",
                  result |-> first_of(sorted_failures(distinct), limit)]
        returns(checked, outcome) ==
            [fl |-> checked.fl, collected |-> checked.collected,
             error |-> outcome.error, result |-> outcome.result]
        query(checked) ==
            returns(checked, finish(unique_failures(checked.collected)))
    IN query(check_tests(fl, <<>>, tree, ts))

\* The suites and the working trees of the queries: a.py holds any text,
\* the test file at most one line, or it cannot be read.
RecentSuites == {{"L", "T2"}, {"L", "FP"}}

RecentTrees ==
    WorkingTrees \cup {[tree EXCEPT ![PathTestB] = Unreadable] : tree \in WorkingTrees}

\* The orders in which the set of tests can be iterated.
iteration_orders(S) ==
    {ts \in seqs_upto(S, Cardinality(S)) :
        /\ Len(ts) = Cardinality(S)
        /\ \A i, j \in 1..Len(ts) : i # j => ts[i] # ts[j]}

GetRecentlyBrokenRatchets(ts, limit, include_commits, repository) ==
    LET returns(r) ==
            /\ failures' = r.fl
            /\ last' = [Op("get_recently_broken_ratchets", "none") EXCEPT
                            !.tests = ts, !.limit = limit,
                            !.include_commits = include_commits,
                            !.repository = repository,
                            !.collected = r.collected,
                            !.error = r.error, !.result = r.result]
    IN /\ returns(get_recently_broken_ratchets(failures, files, ts, limit,
                                               include_commits, repository))
       /\ UNCHANGED <<allowed_count, ratchet_values, files, suite>>
       /\ UNCHANGED <<gitVars, managerVars>>

InitRecent ==
    /\ failures = [t \in Tests |-> <<>>]
    /\ allowed_count = [t \in Tests |-> 0]
    /\ ratchet_values = <<>>
    /\ files \in RecentTrees
    /\ suite \in RecentSuites
    /\ last = NoOp
    /\ InitGitIdle

NextRecent ==
    \/ \E ts \in iteration_orders(suite), limit \in 0..MaxLimit :
            GetRecentlyBrokenRatchets(ts, limit, FALSE, <<>>)
    \/ \E ts \in iteration_orders(suite), limit \in 0..MaxLimit,
          repository \in Repositories :
            GetRecentlyBrokenRatchets(ts, limit, TRUE, repository)

SpecRecent == InitRecent /\ [][NextRecent]_vars

-----------------------------------------------------------------------------

(* Claims about the evaluation engine, checked under Spec *)

\* A heap in which no test has recorded a failure.
NoFailures == [u \in Tests |-> <<>>]

\* The failures one call of t's strategy finds in the lines of one file,
\* nothing having been recorded before.
found_in_lines(t, lines, path) ==
    collect_failures_from_lines(NoFailures, t, lines, path)[t]

\* The failures of every selected file of fs, in the order of fs.
RECURSIVE found_in_files(_, _, _)
found_in_files(tree, t, fs) ==
    IF fs = <<>> THEN <<>>
    ELSE (IF should_include_file(t, fs[1])
          THEN found_in_lines(t, readlines(tree[fs[1]]), fs[1]) ELSE <<>>)
         \o found_in_files(tree, t, Tail(fs))

\* The tests that evaluate files themselves (no wrapper around other tests).
PlainTests == {"L", "T2", "FF", "FP"}

\* C1: after get_total_count_from_files(files) the failure list of the test
\* holds the failures of every selected file, and the count returned is the
\* sum of the failures of the selected files.
C1_TotalCountIsSumOverSelectedFiles ==
    (last.op = "get_total_count_from_files" /\ last.test \in PlainTests)
        => /\ failures[last.test] = found_in_files(files, last.test, last.files)
           /\ last.count = Len(found_in_files(files, last.test, last.files))

-----------------------------------------------------------------------------
(* Claims about verdicts and the baseline, checked under SpecVerdict and
   SpecBaseline *)

\* C2: a test passes exactly when its total_count is at most its
\* allowed_count and is reported as a regression exactly when the total
\* exceeds it: the harness test (RatchetTest.test) and a CI run that fails
\* on violations and evaluated some changed file both report so.
C2_PassesExactlyWhenWithinAllowed ==
    /\ last.op = "test_ratchet"
           => (last.ok <=> last.count <= allowed_count[last.test])
    /\ (last.op = "ci_run" /\ last.strict /\ last.files # <<>>)
           => (last.ok <=> \A i \in 1..Len(CIRatchets) :
                   Len(failures[CIRatchets[i]]) <= allowed_count[CIRatchets[i]])

\* The operations that evaluate a test against lines or files.
EvaluationOps ==
    {"collect_failures_from_lines", "collect_failures_from_file",
     "get_total_count_from_files"}

\* C3: no evaluation changes the baseline store or any allowed_count; the
\* store changes only through write_ratchet_counts (update, or an explicit
\* write), and an allowed_count is only ever set to the count the store
\* holds for the test's name (at construction, or by the harness before it
\* runs the test).
C3_EvaluationLeavesBaselineUnchanged ==
    [][/\ last'.op \in EvaluationOps
            => (ratchet_values' = ratchet_values /\ allowed_count' = allowed_count)
       /\ ratchet_values' # ratchet_values
            => last'.op \in {"update", "write_ratchet_counts"}
       /\ \A t \in Tests :
            allowed_count'[t] # allowed_count[t]
                => /\ last'.op \in {"construct", "test_ratchet"}
                   /\ last'.test = t
                   /\ ratchet_values' = ratchet_values
                   /\ allowed_count'[t] =
                          load_ratchet_count(ratchet_values, TestDef[t].name)
      ]_vars

\* An evaluation has counted fewer failures than the store allows, and the
\* store and the allowed_count still hold the larger count.
C3_Witness ==
    /\ last.op = "get_total_count_from_files"
    /\ last.test = "L"
    /\ "L" \in DOMAIN ratchet_values
    /\ last.count < ratchet_values["L"]
    /\ allowed_count["L"] = ratchet_values["L"]

\* C4: once update has stored the counts and no file has changed since,
\* the next evaluation of every test of the harness counts exactly its
\* allowed_count (and so passes).
C4_UpdatedBaselineEqualsTotal ==
    (last.op = "test_ratchet" /\ last.updated)
        => /\ last.count = allowed_count[last.test]
           /\ last.ok

\* The harness has run a test that counts failures, after an update that
\* no edit and no other write followed.
C4_Witness ==
    /\ last.op = "test_ratchet"
    /\ last.updated
    /\ last.count > 0
    /\ ratchet_values[TestDef[last.test].name] = last.count

-----------------------------------------------------------------------------
(* More claims about the evaluation engine, checked under Spec *)

\* C5: each call of a match strategy on a file in scope leaves the failure
\* list equal to exactly the failures of that call, whether or not the call
\* matched anything.
C5_CallLeavesExactlyItsFailures ==
    (/\ last.op = "collect_failures_from_lines"
     /\ last.test \in PlainTests
     /\ should_include_file(last.test, last.path))
        => failures[last.test] = found_in_lines(last.test, last.lines, last.path)

\* The tests a wrapper evaluates as its parts: the first pass of a two-pass
\* test, the two ratchets of a comparison test.
parts(t) ==
    IF TestDef[t].class = "TwoPassRatchetTest" THEN {TestDef[t].first_pass}
    ELSE IF TestDef[t].class = "_TempComparisonRatchetTest"
         THEN {TestDef[t].base_ratchet, TestDef[t].compare_with_ratchet}
    ELSE {}

\* Every recorded failure carries the name of the test whose list it is in.
FailuresCarryOwnName ==
    \A t \in Tests : \A i \in 1..Len(failures[t]) :
        failures[t][i].test_name = TestDef[t].name

\* C6 (as stated): every failure carries its own test's name, and evaluating
\* one test leaves the failure list of every other test instance unchanged.
C6_EvaluationLeavesEveryOtherList ==
    [][/\ FailuresCarryOwnName'
       /\ last'.op \in EvaluationOps
            => \A u \in Tests \ {last'.test} : failures'[u] = failures[u]
      ]_vars

\* C6 (amended): every failure carries its own test's name, and evaluating
\* one test leaves unchanged the failure list of every other test instance
\* except the parts the evaluated test wraps.
C6_EvaluationLeavesListsOutsideItsParts ==
    [][/\ FailuresCarryOwnName'
       /\ last'.op \in EvaluationOps
            => \A u \in Tests \ ({last'.test} \cup parts(last'.test)) :
                   failures'[u] = failures[u]
      ]_vars

\* The two-pass test has been evaluated and has recorded failures, its
\* first pass holds failures of its own, and another test of the suite
\* still holds the failures it had recorded.
C6_Witness ==
    /\ last.op \in EvaluationOps
    /\ last.test = "TP"
    /\ failures["TP"] # <<>>
    /\ failures["FP"] # <<>>
    /\ failures["FF"] # <<>>
    /\ FailuresCarryOwnName

\* C7: evaluating the same files with the same test twice in a row yields
\* the same failures and the same count the second time as the first,
\* whatever the failure list held before the first evaluation.
C7_RepeatedEvaluationYieldsSameFailures ==
    [][(last'.op = "get_total_count_from_files" /\ last'.again)
            => /\ failures'[last'.test] = failures[last'.test]
               /\ last'.count = last.count
      ]_vars

\* A full evaluation over both files has just been repeated, and it counts
\* failures.
C7_Witness ==
    /\ last.op = "get_total_count_from_files"
    /\ last.again
    /\ Len(last.files) = 2
    /\ last.count > 0
    /\ failures[last.test] # <<>>

-----------------------------------------------------------------------------
(* Claims about the state comparator, checked under SpecGit and SpecGit2 *)

\* The positions at which a scoped checkout has been left: normally, or with
\* an error propagating.
LeftCheckout == {"after_with", "raised", "done"}

\* C8: on every exit path of a scoped checkout (normal completion, a failed
\* checkout, an error while the target is checked out) the repository is
\* back on the branch it was on at entry, with the local changes that were
\* stashed at entry restored.
C8_EveryExitRestoresRepository ==
    \A p \in DOMAIN cmp :
        cmp[p].pc \in LeftCheckout
            => /\ head = cmp[p].entry_head
               /\ local_changes = cmp[p].entry_changes

\* A comparison that has returned, both references having been given by
\* name.
Compared(p) ==
    /\ cmp[p].pc = "done"
    /\ cmp[p].previous_state \in Refs
    /\ cmp[p].current_state \in Refs

\* The count obtained by evaluating test t against the files committed at
\* reference r.
evaluated_count(t, r) ==
    get_total_count_from_files(NoFailures, CommittedFiles[r], t,
                               get_ratchet_test_files).count

InCycle(p) == cmp[p].pc \in {"checkout", "body", "restore", "pop"}

\* C10: at most one checkout-evaluate-restore cycle is in progress at any
\* time: no comparison is inside a cycle while another one is.
C10_AtMostOneCycleInProgress ==
    \A p, q \in DOMAIN cmp : (InCycle(p) /\ InCycle(q)) => p = q

-----------------------------------------------------------------------------
(* Claims about the match strategies, checked under Spec *)

\* The caller-supplied function of a two-pass test, in the shape of
\* to_second_pass: a pattern naming a word of the candidate's line (the
\* lines of the model have one word, so the word is the first).
first_pass_failure_to_second_pass_regex_part(failure) ==
    <<failure.line_contents[1]>>

\* The line numbers a list of failures reports.
reported_lines(fs) == {fs[k].line_number : k \in 1..Len(fs)}

\* The first-pass candidates of the file a two-pass test was last given.
candidates(t) == found_in_lines(TestDef[t].first_pass, last.lines, last.path)

\* The candidates of fs with a line, from index `from` to the end of the
\* file, that matches the pattern derived from the candidate.
confirmed_by_derived_pattern(fs, lines, from) ==
    {fs[k].line_number : k \in
        {k \in 1..Len(fs) :
            \E i \in (fs[k].line_number + from)..Len(lines) :
                search(first_pass_failure_to_second_pass_regex_part(fs[k]),
                       lines[i], 0)}}

\* C11: after a two-pass test has evaluated the lines of a file, the
\* candidates it reports are exactly the first-pass candidates of that file
\* for which a line of the slice lines[line_number:], through the end of the
\* file, matches the pattern the caller-supplied function derives from the
\* candidate.
C11_ReportsCandidatesConfirmedByDerivedPattern ==
    (/\ last.op = "collect_failures_from_lines"
     /\ TestDef[last.test].class = "TwoPassRatchetTest")
        => reported_lines(failures[last.test])
              = confirmed_by_derived_pattern(candidates(last.test), last.lines, 1)

one_per_matching_line(t, lines, path) ==
    LET failures_at(hits) ==
            [k \in 1..Len(hits) |->
                TestFailure(TestDef[t].name, path, hits[k], rstrip(lines[hits[k]]))]
    IN failures_at(ascending({i \in 1..Len(lines) :
                                 search(TestDef[t].pattern, lines[i], 0)}))

\* C13: after a line-match test has evaluated the lines of a file it
\* selects, its failures are exactly one per matching line, each with the
\* 1-based index of the line and the line with trailing whitespace removed.
C13_OneFailurePerMatchingLineStripped ==
    (/\ last.op = "collect_failures_from_lines"
     /\ TestDef[last.test].class = "RegexBasedRatchetTest"
     /\ should_include_file(last.test, last.path))
        => failures[last.test]
              = one_per_matching_line(last.test, last.lines, last.path)

\* C14: after a whole-file test has evaluated the lines of a file it
\* selects, it has exactly one failure, at line 1 with the whole joined text,
\* when its pattern matches anywhere in the joined text searched from the
\* first character, and no failure otherwise.
C14_OneFailureExactlyWhenJoinedTextMatches ==
    (/\ last.op = "collect_failures_from_lines"
     /\ TestDef[last.test].class = "FullFileRatchetTest"
     /\ should_include_file(last.test, last.path))
        => failures[last.test]
              = IF search(TestDef[last.test].pattern, join(last.lines), 0)
                THEN <<TestFailure(TestDef[last.test].name, last.path, 1,
                                   join(last.lines))>>
                ELSE <<>>

\* C15: after a test of any strategy has evaluated an empty sequence of
\* lines for a file it selects, the test has no failures.
C15_EmptyLinesLeaveNoFailures ==
    (/\ last.op = "collect_failures_from_lines"
     /\ last.lines = <<>>
     /\ should_include_file(last.test, last.path))
        => failures[last.test] = <<>>

-----------------------------------------------------------------------------
(* Claims about construction, checked under SpecConstruct *)

\* The number of failures an example produces through the strategy of t:
\* the example is split into lines and evaluated by a fresh instance.
failures_of_example(t, example) ==
    Len(found_in_lines(t, legacy_split(example), PathA))

\* C16: a test that has been constructed has only examples that hold
\* through its own strategy: every should-match example produces exactly
\* one failure and every should-not-match example produces none.
C16_ConstructedTestsHaveValidExamples ==
    (last.op = "construct" /\ last.ok)
        => /\ \A k \in 1..Len(last.match_examples) :
                 failures_of_example(last.test, last.match_examples[k]) = 1
           /\ \A k \in 1..Len(last.non_match_examples) :
                 failures_of_example(last.test, last.non_match_examples[k]) = 0

\* C17: a test that has been constructed without an explicit allowed count
\* has as allowed count the value the store holds for its name at that
\* moment, and 0 when the store has no entry for the name (or does not
\* exist).
C17_AllowedCountDefaultsToStoredValue ==
    (last.op = "construct" /\ last.ok)
        => allowed_count[last.test]
              = IF TestDef[last.test].name \in DOMAIN ratchet_values
                THEN ratchet_values[TestDef[last.test].name]
                ELSE 0

\* A test has been constructed while the store held a positive count for
\* its name.
C17_Witness ==
    /\ last.op = "construct"
    /\ last.ok
    /\ TestDef[last.test].name \in DOMAIN ratchet_values
    /\ ratchet_values[TestDef[last.test].name] > 0
    /\ allowed_count[last.test] = ratchet_values[TestDef[last.test].name]

-----------------------------------------------------------------------------
(* Claims about unreadable files, checked under SpecRead *)

\* The file of the last evaluation is selected by a test of the call and
\* cannot be read.
SelectedFileUnreadable ==
    /\ last.op \in {"collect_failures_from_file", "run_ratchets_on_file"}
    /\ open_raises(files, last.path)
    /\ \/ last.op = "collect_failures_from_file"
       \/ \E k \in 1..Len(last.files) : should_include_file(last.files[k], last.path)

\* C18: an evaluation of a selected file that cannot be read raises a read
\* failure to its caller; it does not return normally (with zero
\* violations for the file).
C18_UnreadableSelectedFileIsReported ==
    SelectedFileUnreadable => ~last.ok

-----------------------------------------------------------------------------
(* Claims about git commands, checked under SpecCommand *)

\* C19: every argument of every git command an operation has started is
\* free of shell metacharacters, unless it is a format-specifier flag.
C19_NoCommandStartedWithMetacharacter ==
    \A k \in 1..Len(last.started) :
        \A i \in 1..Len(last.started[k]) :
            has_metacharacter(last.started[k][i])
                => is_format_flag(last.started[k][i])

\* The repository has unmerged paths or HEAD is detached.
ConflictedOrDetached == head \notin Refs \/ local_changes = "unmerged"

\* C20: when the changed files have been asked for in a repository that has
\* unresolved merge conflicts or a detached HEAD, the call has failed with
\* the error of that state and has returned no file list.
C20_ChangedFilesFailInConflictedOrDetachedState ==
    (last.op = "get_changed_files" /\ ConflictedOrDetached)
        => /\ ~last.ok
           /\ last.files = <<>>
           /\ last.error = IF head \notin Refs
                           THEN "Repository is in detached HEAD state"
                           ELSE "Repository has merge conflicts"

\* The changed files have been asked for on a branch with unmerged paths,
\* and the call has failed.
C20_Witness ==
    /\ last.op = "get_changed_files"
    /\ head \in Refs
    /\ local_changes = "unmerged"
    /\ ~last.ok

-----------------------------------------------------------------------------
(* Claims about the pattern cache, checked under SpecPattern *)

\* C21: two lookups of the same (pattern, escape) pair have returned the
\* same pattern object exactly when no clear_cache happened between them,
\* that is, when they were made in the same generation.
C21_SameObjectExactlyWithinOneGeneration ==
    \A x \in lookups, y \in lookups :
        (x.pattern = y.pattern /\ x.escape = y.escape)
            => (x.object = y.object <=> x.generation = y.generation)

\* C27: a clear_cache step advances the generation counter and leaves every
\* entry of the cache in place with the object it held.
C27_InvalidateKeepsEarlierEntries ==
    [][_cache_generation' # _cache_generation
          => \A key \in DOMAIN _pattern_cache :
                /\ key \in DOMAIN _pattern_cache'
                /\ _pattern_cache'[key] = _pattern_cache[key]
      ]_vars

\* C30: the pattern objects returned for one (pattern, escape) pair, in
\* whatever generation, match the same subject texts.
C30_PatternMatchesSameTextsInEveryGeneration ==
    \A x \in lookups, y \in lookups :
        (x.pattern = y.pattern /\ x.escape = y.escape)
            => \A text \in SubjectTexts :
                  pattern_search(patterns[x.object], text)
                      = pattern_search(patterns[y.object], text)

-----------------------------------------------------------------------------
(* Claims about file selection, checked under Spec *)

\* C22: after get_total_count_from_files on a test built with an explicit
\* include_file_regex, with or without exclude_test_files, every failure of
\* the test lies in a file whose path matches that pattern: a file whose
\* path does not match it was not evaluated.
C22_OnlyPathsMatchingExplicitIncludeAreEvaluated ==
    (/\ last.op = "get_total_count_from_files"
     /\ TestDef[last.test].include_file_regex.kind # "none")
        => \A i \in 1..Len(failures[last.test]) :
              path_search(TestDef[last.test].include_file_regex,
                          failures[last.test][i].filepath)

-----------------------------------------------------------------------------
(* Claims about file exclusion, checked under SpecExclude *)

\* A negation pattern without a path separator that names the file.
root_level_negation(filepath, pattern) ==
    /\ startswith(pattern, "!")
    /\ ~contains(Tail(pattern), "/")
    /\ fnmatch(path_name(normalize(filepath)), Tail(pattern))

\* C23: a negation pattern without a path separator restores inclusion only
\* for a file of that name at the root: a file of that name in a nested
\* directory that an exclusion pattern matches, and that no negation with a
\* path names, is reported as excluded.
C23_RootLevelNegationLeavesNestedFileExcluded ==
    (/\ last.op = "should_exclude_file"
     /\ contains(normalize(last.path), "/")
     /\ \E i \in 1..Len(last.files) : root_level_negation(last.path, last.files[i])
     /\ \E i \in 1..Len(last.files) :
            \/ directory_pattern_matches(normalize(last.path), last.files[i])
            \/ exclusion_pattern_matches(normalize(last.path), last.files[i])
     /\ ~ \E i \in 1..Len(last.files) :
            /\ contains(last.files[i], "/")
            /\ negation_pattern_matches(normalize(last.path), last.files[i]))
        => last.ok

-----------------------------------------------------------------------------
(* Claims about the recency detector, checked under SpecRecent *)

\* What the claims identify a failure by.
identity(failure) ==
    <<failure.test_name, failure.filepath, failure.line_number,
      failure.line_contents>>

\* C24: a list returned by get_recently_broken_ratchets never holds two
\* failures with the same test name, file path, line number and text.
C24_ReturnedListHasNoDuplicateFailures ==
    (last.op = "get_recently_broken_ratchets" /\ last.error = "none")
        => \A i, j \in 1..Len(last.result) :
              i # j => identity(last.result[i]) # identity(last.result[j])

\* A query has returned two failures or more out of a collected list that
\* held a failure twice.
C24_Witness ==
    /\ last.op = "get_recently_broken_ratchets"
    /\ last.error = "none"
    /\ Len(last.result) >= 2
    /\ \E i, j \in 1..Len(last.collected) :
          i # j /\ identity(last.collected[i]) = identity(last.collected[j])

\* git answers every log command of the query with a commit line it can
\* parse or with nothing.
git_log_answers ==
    last.include_commits
        => /\ last.repository # <<"unborn">>
           /\ \A path \in Paths : last.repository[path] # "no_subject"

distinct_failures == {identity(last.collected[i]) : i \in 1..Len(last.collected)}

\* C25: a query with limit n returns min(n, number of distinct failures)
\* failures, in ascending order of (file path, line number), each of them
\* one of the distinct failures collected and none of them after a failure
\* that was left out, with or without commit attribution.
C25_ReturnsFirstFailuresInPathAndLineOrder ==
    (last.op = "get_recently_broken_ratchets" /\ git_log_answers)
        => /\ last.error = "none"
           /\ Len(last.result) =
                  (IF last.limit < Cardinality(distinct_failures)
                   THEN last.limit ELSE Cardinality(distinct_failures))
           /\ \A i, j \in 1..Len(last.result) :
                  i < j => ~sort_key_less(last.result[j], last.result[i])
           /\ \A i \in 1..Len(last.result) :
                  identity(last.result[i]) \in distinct_failures
           /\ \A i \in 1..Len(last.collected) :
                  (\A k \in 1..Len(last.result) :
                        identity(last.result[k]) # identity(last.collected[i]))
                      => \A k \in 1..Len(last.result) :
                            ~sort_key_less(last.collected[i], last.result[k])

\* The file of a failure has no commit git can resolve.
no_resolvable_commit(failure) ==
    \/ last.repository = <<"unborn">>
    \/ last.repository[failure.filepath] = "untracked"

\* C26: a query with commit attribution that has a failure to return, in a
\* repository where the files have a last commit or none, returns: it raises
\* no error, and a failure whose file has no resolvable commit is in the list
\* with commit hash, date and message unset.
C26_FailureWithoutCommitIsReturnedUnattributed ==
    (/\ last.op = "get_recently_broken_ratchets"
     /\ last.include_commits
     /\ last.limit >= 1
     /\ last.collected # <<>>
     /\ \A i \in 1..Len(last.collected) : last.collected[i].filepath_type = "str"
     /\ \/ last.repository = <<"unborn">>
        \/ \A path \in Paths : last.repository[path] # "no_subject")
        => /\ last.error = "none"
           /\ Len(last.result) >= 1
           /\ \A k \in 1..Len(last.result) :
                  no_resolvable_commit(last.result[k])
                      => /\ last.result[k].commit_hash = "unset"
                         /\ last.result[k].commit_date = "unset"
                         /\ last.result[k].commit_message = "unset"

-----------------------------------------------------------------------------
(* A further claim about the state comparator, checked under SpecGit *)

\* C28: when a scoped checkout has exited, the stash entries that existed
\* when it was entered are still there, unchanged, below whatever lies on
\* top of them, also when there was nothing to stash at entry.
C28_ScopedCheckoutKeepsEarlierStashEntries ==
    \A p \in DOMAIN cmp :
        cmp[p].pc = "after_with"
            => /\ Len(stash) >= Len(cmp[p].entry_stash)
               /\ SubSeq(stash, Len(stash) - Len(cmp[p].entry_stash) + 1,
                         Len(stash)) = cmp[p].entry_stash

-----------------------------------------------------------------------------
(* A further claim about the baseline store, checked under SpecHarness *)

\* C29: a write of the baseline store with the counts of some of the tests
\* leaves the stored count of every test it was not given as it was.
C29_WriteForSomeTestsKeepsCountsOfOthers ==
    [][\A counts \in StoredValues :
          WriteRatchetCounts(counts)
              => \A name \in DOMAIN ratchet_values \ DOMAIN counts :
                    load_ratchet_count(ratchet_values', name)
                        = load_ratchet_count(ratchet_values, name)
      ]_vars

=============================================================================
